---------------------------- MODULE Spec2Model ----------------------------
(***************************************************************************)
(* A model of the OneDrive version resolver of src/src/extension.ts:       *)
(* mapping selection, remote path construction, the cascading item lookup  *)
(* of OneDriveClient.loadVersionsForFile and the per-path context cache.   *)
(*                                                                         *)
(* Strings are sequences of lexemes: a lexeme is one character ("/", ".",  *)
(* " ", "-", a letter) or an indivisible run of characters (a word such as *)
(* "OneDrive", the escape "%20").  A path is such a string, with "/"       *)
(* between its segments.                                                   *)
(***************************************************************************)
EXTENDS Integers, Sequences, FiniteSets, TLC

\* JavaScript's undefined, for an identifier, for a string and for an object.
None == "undefined"
NoString == <<"undefined">>
NoRecord == [undefined |-> TRUE]

(***************************************************************************)
(* Bounds of the model.                                                    *)
(***************************************************************************)
\* Drives the account can enumerate are numbered 1..MaxDrives.
MaxDrives == 2
\* Longest version list the remote API returns.
MaxVersions == 2
\* Wall-clock hours used in lastModifiedDateTime strings: 1..MaxHour.
MaxHour == 2
\* Longest list of mappings the user configures.
MaxMappings == 2
\* Longest remote path, in lexemes, candidates are built for.
MaxLexemes == 4
\* Longest URL, in characters, a share id is made of.
MaxChars == 3

(***************************************************************************)
(* String helpers (String.prototype and Array.prototype of the runtime).   *)
(***************************************************************************)
Range(s) == {s[i] : i \in 1..Len(s)}

startsWith(s, p) == Len(p) <= Len(s) /\ SubSeq(s, 1, Len(p)) = p

slice(s, n) == SubSeq(s, n + 1, Len(s))

RECURSIVE stripLeading(_, _)
stripLeading(s, cs) ==
  IF s # <<>> /\ Head(s) \in cs THEN stripLeading(Tail(s), cs) ELSE s

RECURSIVE stripTrailing(_, _)
stripTrailing(s, cs) ==
  IF s # <<>> /\ s[Len(s)] \in cs
    THEN stripTrailing(SubSeq(s, 1, Len(s) - 1), cs)
    ELSE s

trim(s) == stripTrailing(stripLeading(s, {" "}), {" "})

\* s.split(sep): the pieces of s between occurrences of the lexeme sep.
RECURSIVE split(_, _)
split(s, sep) ==
  IF \A i \in 1..Len(s) : s[i] # sep
    THEN <<s>>
    ELSE LET k == CHOOSE i \in 1..Len(s) :
                    s[i] = sep /\ \A j \in 1..(i - 1) : s[j] # sep
         IN  <<SubSeq(s, 1, k - 1)>> \o split(SubSeq(s, k + 1, Len(s)), sep)

\* parts.join(sep)
RECURSIVE join(_, _)
join(parts, sep) ==
  IF parts = <<>> THEN <<>>
  ELSE IF Len(parts) = 1 THEN parts[1]
  ELSE parts[1] \o <<sep>> \o join(Tail(parts), sep)

\* array.filter((s) => s.length > 0)
RECURSIVE nonEmpty(_)
nonEmpty(parts) ==
  IF parts = <<>> THEN <<>>
  ELSE IF Head(parts) = <<>> THEN nonEmpty(Tail(parts))
  ELSE <<Head(parts)>> \o nonEmpty(Tail(parts))

\* [...new Set(items)]: first occurrences, in order.
RECURSIVE dedupe(_)
dedupe(items) ==
  IF items = <<>> THEN <<>>
  ELSE LET front == dedupe(SubSeq(items, 1, Len(items) - 1))
           last  == items[Len(items)]
       IN  IF last \in Range(front) THEN front ELSE Append(front, last)

toLowerCase(s) ==
  [i \in 1..Len(s) |->
     CASE s[i] = "H" -> "h"
       [] s[i] = "S" -> "s"
       [] s[i] = "OneDrive" -> "onedrive"
       [] s[i] = "HTTPS:" -> "https:"
       [] s[i] = "HTTP:" -> "http:"
       [] OTHER -> s[i]]

\* encodeURIComponent on the model's alphabet: the space and the percent
\* sign are escaped.
encodeURIComponent(s) ==
  [i \in 1..Len(s) |-> CASE s[i] = " " -> "%20"
                         [] s[i] = "%" -> "%25"
                         [] OTHER -> s[i]]

\* A "%" that starts no escape: decodeURIComponent throws a URIError.
isMalformedUri(s) == \E i \in 1..Len(s) : s[i] = "%"

\* decodeURIComponent of a string that is not malformed.
decodeURIComponent(s) ==
  [i \in 1..Len(s) |-> CASE s[i] = "%20" -> " "
                         [] s[i] = "%25" -> "%"
                         [] OTHER -> s[i]]

mapEncode(segments) ==
  [i \in 1..Len(segments) |-> encodeURIComponent(segments[i])]


\* s.length in characters: a word or an escape counts its characters.
RECURSIVE length(_)
length(s) ==
  IF s = <<>> THEN 0
  ELSE (CASE Head(s) \in {"OneDrive", "onedrive"} -> 8
          [] Head(s) \in {"%20", "%25"} -> 3
          [] OTHER -> 1) + length(Tail(s))

(***************************************************************************)
(* node:path on a POSIX host.                                              *)
(***************************************************************************)
\* process.cwd()
cwd == <<"/", "w">>

pathSegments(s) == nonEmpty(split(s, "/"))

\* Resolution of "." and ".." segments, left to right.
RECURSIVE normalizeSegments(_, _)
normalizeSegments(done, rest) ==
  IF rest = <<>> THEN done
  ELSE IF Head(rest) = <<".">> THEN normalizeSegments(done, Tail(rest))
  ELSE IF Head(rest) = <<".", ".">>
    THEN normalizeSegments(
           IF done = <<>> THEN done ELSE SubSeq(done, 1, Len(done) - 1),
           Tail(rest))
  ELSE normalizeSegments(Append(done, Head(rest)), Tail(rest))

\* path.resolve(input): an absolute path without trailing separator.
pathResolve(input) ==
  LET base == IF startsWith(input, <<"/">>) THEN <<>> ELSE pathSegments(cwd)
  IN  <<"/">> \o join(normalizeSegments(<<>>, base \o pathSegments(input)), "/")

\* path.relative(from, to)
pathRelative(from, to) ==
  LET f == pathSegments(pathResolve(from))
      t == pathSegments(pathResolve(to))
      common == CHOOSE c \in 0..Len(f) :
                  /\ c <= Len(t)
                  /\ SubSeq(f, 1, c) = SubSeq(t, 1, c)
                  /\ \A d \in (c + 1)..Len(f) :
                       d > Len(t) \/ SubSeq(f, 1, d) # SubSeq(t, 1, d)
      ups == [i \in 1..(Len(f) - common) |-> <<".", ".">>]
  IN  join(ups \o SubSeq(t, common + 1, Len(t)), "/")

pathIsAbsolute(s) == startsWith(s, <<"/">>)

(***************************************************************************)
(* Mapping discovery and selection.                                        *)
(***************************************************************************)
Mapping(localRoot, driveId, remoteRoot, urlNamespace, fullRemotePath) ==
  [localRoot |-> localRoot, driveId |-> driveId, remoteRoot |-> remoteRoot,
   urlNamespace |-> urlNamespace, fullRemotePath |-> fullRemotePath]

normalizeLocalRoot(input) == stripTrailing(pathResolve(input), {"/", "\\"})

normalizeRemoteRoot(input) ==
  LET trimmed == [i \in 1..Len(trim(input)) |->
                    IF trim(input)[i] = "\\" THEN "/" ELSE trim(input)[i]]
  IN  IF trimmed = <<>> \/ trimmed = <<"/">>
        THEN <<"/">>
        ELSE <<"/">> \o stripTrailing(stripLeading(trimmed, {"/"}), {"/"})

isPathWithin(candidate, root) ==
  LET normalizedCandidate == normalizeLocalRoot(candidate)
      normalizedRoot == normalizeLocalRoot(root)
      relative == pathRelative(normalizedRoot, normalizedCandidate)
  IN  IF relative = <<>> THEN TRUE
      ELSE ~startsWith(relative, <<".", ".">>) /\ ~pathIsAbsolute(relative)

\* /^onedrive(\b|[ -])/i on one segment.
WordLexemes == {"OneDrive", "onedrive", "u", "p", "f", "r", "x", "c", "h", "s", "H", "S"}

matchesOneDrive(segment) ==
  /\ segment # <<>>
  /\ toLowerCase(segment)[1] = "onedrive"
  /\ (Len(segment) = 1 \/ segment[2] \notin WordLexemes)

inferMappingFromPath(localPath) ==
  LET segments == nonEmpty(split(slice(localPath, 1), "/"))
      hits == {i \in 1..Len(segments) : matchesOneDrive(segments[i])}
  IN  IF hits = {} THEN NoRecord
      ELSE LET oneDriveIndex == CHOOSE i \in hits : \A j \in hits : i <= j
               rootSegments == SubSeq(segments, 1, oneDriveIndex)
           IN  Mapping(<<"/">> \o join(rootSegments, "/"), None, NoString, NoString, NoString)

isBlank(value) == value = NoString \/ trim(value) = <<>>

\* array.filter(keep) for a predicate given as the set of kept values.
RECURSIVE filterSeq(_, _)
filterSeq(items, kept) ==
  IF items = <<>> THEN <<>>
  ELSE IF Head(items) \in kept
    THEN <<Head(items)>> \o filterSeq(Tail(items), kept)
    ELSE filterSeq(Tail(items), kept)

getMappingsFromConfig(mappings) ==
  filterSeq(mappings, {m \in Range(mappings) : ~isBlank(m.localRoot)})

\* First mapping of each normalized root, in order, with the root normalized.
RECURSIVE dedupeByRoot(_)
dedupeByRoot(mappings) ==
  IF mappings = <<>> THEN <<>>
  ELSE LET front == dedupeByRoot(SubSeq(mappings, 1, Len(mappings) - 1))
           last  == mappings[Len(mappings)]
           normalized == normalizeLocalRoot(last.localRoot)
       IN  IF \E i \in 1..Len(front) : front[i].localRoot = normalized
             THEN front
             ELSE Append(front, [last EXCEPT !.localRoot = normalized])

getMappingsFromEnvironment(env) ==
  LET roots == filterSeq(env, {v \in Range(env) : ~isBlank(v)})
      envRoots == [i \in 1..Len(roots) |-> Mapping(roots[i], None, NoString, NoString, NoString)]
  IN  dedupeByRoot(envRoots)


\* The candidates of resolveBestMapping, in source order.
mappingCandidates(localPath, configured, env, registry) ==
  LET inferred == inferMappingFromPath(localPath)
      baseCandidates == getMappingsFromConfig(configured)
                          \o getMappingsFromEnvironment(env) \o registry
  IN  IF inferred # NoRecord THEN Append(baseCandidates, inferred) ELSE baseCandidates

\* The first candidate (the sort is stable) with the longest normalized root
\* among those that contain the path.
resolveBestMapping(localPath, configured, env, registry) ==
  LET candidates == mappingCandidates(localPath, configured, env, registry)
      root(i) == normalizeLocalRoot(candidates[i].localRoot)
      matches == {i \in 1..Len(candidates) : isPathWithin(localPath, root(i))}
  IN  IF matches = {} THEN NoRecord
      ELSE LET best == CHOOSE i \in matches :
                         \A j \in matches :
                           \/ length(root(j)) < length(root(i))
                           \/ (length(root(j)) = length(root(i)) /\ i <= j)
           IN  [candidates[best] EXCEPT !.localRoot = root(best)]

\* toRelativeSegments: NoString stands for the thrown "File is outside the
\* mapped local OneDrive root."
toRelativeSegments(mapping, localPath) ==
  LET root == normalizeLocalRoot(mapping.localRoot)
      relative == pathRelative(root, localPath)
  IN  IF startsWith(relative, <<".", ".">>) \/ pathIsAbsolute(relative)
        THEN NoString
        ELSE nonEmpty(split(relative, "/"))

toRemotePath(mapping, relativeSegments) ==
  LET remoteRoot == normalizeRemoteRoot(
                      IF mapping.remoteRoot = NoString THEN <<"/">> ELSE mapping.remoteRoot)
      encodedRelativeSegments == mapEncode(relativeSegments)
      rootSegments == mapEncode(nonEmpty(split(remoteRoot, "/")))
  IN  <<"/">> \o join(rootSegments \o encodedRelativeSegments, "/")

\* The full path as the only candidate.
buildRemotePathCandidates_fullOnly(remotePath) ==
  LET segments == nonEmpty(split(remotePath, "/"))
  IN  << <<"/">> \o join(segments, "/") >>

\* Lines 976-990.
buildRemotePathCandidates(remotePath) ==
  LET normalized == IF startsWith(remotePath, <<"/">>) THEN remotePath
                    ELSE <<"/">> \o remotePath
      segments == nonEmpty(split(normalized, "/"))
  IN  IF segments = <<>> THEN << <<"/">> >>
      ELSE dedupe([start \in 1..Len(segments) |->
                     <<"/">> \o join(SubSeq(segments, start, Len(segments)), "/")])


(***************************************************************************)
(* Errors are their messages.                                              *)
(***************************************************************************)
\* message.includes(needle)
includes(message, needle) ==
  \E i \in 1..(Len(message) - Len(needle) + 1) :
     SubSeq(message, i, i + Len(needle) - 1) = needle

\* fetchJson: `Graph request failed (${response.status}): ${body}`
GraphError(status, body) ==
  <<"Graph request failed (", status, ")", ": ">> \o body

isGraphNotFound(error) ==
  \/ includes(error, <<"Graph request failed (", "404", ")">>)
  \/ includes(error, <<"itemNotFound">>)

\* resolver-utils.ts, lines 11-16.
isGraphCurrentVersionContentUnsupported(error) ==
  /\ includes(error, <<"Graph content request failed (", "400", ")">>)
  /\ includes(error, <<"invalidRequest">>)
  /\ includes(error, <<"current version">>)

isGraphAccessDenied(error) ==
  \/ includes(error, <<"Graph request failed (", "403", ")">>)
  \/ includes(error, <<"accessDenied">>)

ErrNoMapping == <<"File is not ", "inside a detected OneDrive root", ".">>
ErrOutsideRoot == <<"File is outside the mapped local OneDrive root.">>
ErrConfiguredDrive ==
  <<"itemNotFound", ": path was not found in configured drive mapping.">>
\* A message without the itemNotFound code.
ErrAllDrives_uncoded ==
  <<"path was not found in /me/drive or any accessible /me/drives entries.">>
ErrAllDrives ==
  <<"itemNotFound", ": path was not found in /me/drive or any accessible /me/drives entries (including trimmed-path fallback).">>
ErrNoUrlMetadata == <<"itemNotFound", ": no registry URL metadata available.">>
ErrDriveWebUrl ==
  <<"itemNotFound", ": registry URL fallback could not map file to an accessible drive webUrl.">>
ErrShareUrl ==
  <<"itemNotFound", ": file could not be resolved via registry share URL metadata.">>
ErrUnresolved ==
  <<"itemNotFound", ": unable to resolve remote item for local OneDrive path.">>
ErrNoDriveId == <<"Unable to determine driveId for this file.">>
ErrNoVersions == <<"No OneDrive versions were returned for this file.">>
\* getAccessToken without a session or a silent token.
ErrAuthRequired == <<"AUTH_REQUIRED">>
\* fetch() rejecting: no response at all.
ErrFetchFailed == <<"fetch failed">>
\* new URL(input) on a string that is no URL.
ErrInvalidUrl == <<"Invalid URL">>

(***************************************************************************)
(* URLs: "https:" or "http:", "/", "/", the host, then the path.           *)
(***************************************************************************)
Schemes == {"https:", "http:", "HTTPS:", "HTTP:"}

\* /^https:\/(?!\/)/i -> "https://" and the same for http.
normalizeShareBaseUrl(input) ==
  LET trimmed == trim(input)
  IN  IF trimmed = <<>> THEN trimmed
      ELSE IF /\ Len(trimmed) >= 2
              /\ trimmed[1] \in Schemes
              /\ trimmed[2] = "/"
              /\ (Len(trimmed) = 2 \/ trimmed[3] # "/")
        THEN <<IF trimmed[1] \in {"https:", "HTTPS:"} THEN "https:" ELSE "http:",
               "/", "/">> \o slice(trimmed, 2)
        ELSE trimmed

\* The pathname of a parsed URL: the space is escaped, a "%" is kept.
encodePathname(path) ==
  [i \in 1..Len(path) |-> IF path[i] = " " THEN "%20" ELSE path[i]]

\* body at the value of x, which is evaluated once.
valueAt(x, body(_)) == CHOOSE r \in {body(v) : v \in {x}} : TRUE

\* The host of a URL ends before the first "/" of the rest.
hostLength(rest) ==
  IF \E i \in 1..Len(rest) : rest[i] = "/"
    THEN (CHOOSE i \in 1..Len(rest) :
            rest[i] = "/" /\ \A j \in 1..(i - 1) : rest[j] # "/") - 1
    ELSE Len(rest)

\* new URL(input): origin and pathname, or NoRecord for the TypeError.
parseUrl(input) ==
  IF input = <<>> \/ input[1] \notin Schemes THEN NoRecord
  ELSE valueAt(stripLeading(Tail(input), {"/", "\\"}), LAMBDA rest :
       valueAt(hostLength(rest), LAMBDA hostLen :
       valueAt(slice(rest, hostLen), LAMBDA path :
         IF hostLen = 0 THEN NoRecord
         ELSE [origin |-> toLowerCase(<<input[1], "/", "/">> \o SubSeq(rest, 1, hostLen)),
               pathname |-> IF path = <<>> THEN <<"/">> ELSE encodePathname(path)])))

\* url.toString()
urlToString(url) == url.origin \o url.pathname

\* NoString stands for the TypeError of new URL(baseUrl).
appendPathSegmentsToUrl(baseUrl, segments) ==
  valueAt(parseUrl(baseUrl), LAMBDA url :
    IF url = NoRecord THEN NoString
    ELSE valueAt(stripTrailing(url.pathname, {"/"}), LAMBDA basePath :
         valueAt(join(mapEncode(segments), "/"), LAMBDA extraPath :
           urlToString([url EXCEPT !.pathname =
             IF extraPath # <<>> THEN basePath \o <<"/">> \o extraPath
             ELSE IF basePath # <<>> THEN basePath ELSE <<"/">>]))))

\* An error on its way to the caller: "throw" and the message.
Thrown(message) == <<"throw">> \o message
isThrown(result) == startsWith(result, <<"throw">>)

ErrUriMalformed == <<"URI malformed">>

\* Lines 1019-1033: the body of the try block.
relativePathOrThrow(targetUrl, baseUrl) ==
  LET target == parseUrl(targetUrl)
      base == parseUrl(baseUrl)
      targetPath == stripTrailing(target.pathname, {"/"})
      basePath == stripTrailing(base.pathname, {"/"})
      remaining == stripLeading(slice(targetPath, Len(basePath)), {"/"})
  IN  IF target = NoRecord \/ base = NoRecord THEN Thrown(ErrInvalidUrl)
      ELSE IF toLowerCase(target.origin) # toLowerCase(base.origin) THEN NoString
      ELSE IF ~startsWith(toLowerCase(targetPath), toLowerCase(basePath)) THEN NoString
      ELSE IF isMalformedUri(remaining) THEN Thrown(ErrUriMalformed)
      ELSE decodeURIComponent(remaining)

\* The function without its catch block.
getRelativePathByUrlPrefix_uncaught(targetUrl, baseUrl) ==
  relativePathOrThrow(targetUrl, baseUrl)

\* Lines 1017-1037: whatever the body throws is answered with undefined.
getRelativePathByUrlPrefix(targetUrl, baseUrl) ==
  LET result == relativePathOrThrow(targetUrl, baseUrl)
  IN  IF isThrown(result) THEN NoString ELSE result

\* Buffer.from(s, "utf8"): the bytes of each character; "eacute" is the
\* letter U+00E9.
RECURSIVE utf8(_)
utf8(s) ==
  IF s = <<>> THEN <<>>
  ELSE (CASE Head(s) = "h" -> <<104>>
          [] Head(s) = "?" -> <<63>>
          [] Head(s) = "~" -> <<126>>
          [] Head(s) = "eacute" -> <<195, 169>>) \o utf8(Tail(s))

\* The 64 digits of base64.
Base64Digits ==
  <<"A", "B", "C", "D", "E", "F", "G", "H", "I", "J", "K", "L", "M", "N", "O", "P",
     "Q", "R", "S", "T", "U", "V", "W", "X", "Y", "Z", "a", "b", "c", "d", "e", "f",
     "g", "h", "i", "j", "k", "l", "m", "n", "o", "p", "q", "r", "s", "t", "u", "v",
     "w", "x", "y", "z", "0", "1", "2", "3", "4", "5", "6", "7", "8", "9", "+", "/">>

base64Digit(sextet) == Base64Digits[sextet + 1]

\* buffer.toString("base64"): three bytes are four digits, the last group is
\* padded with "=".
RECURSIVE toBase64(_)
toBase64(bytes) ==
  IF bytes = <<>> THEN <<>>
  ELSE IF Len(bytes) = 1
    THEN <<base64Digit(bytes[1] \div 4), base64Digit((bytes[1] % 4) * 16), "=", "=">>
  ELSE IF Len(bytes) = 2
    THEN <<base64Digit(bytes[1] \div 4),
           base64Digit((bytes[1] % 4) * 16 + bytes[2] \div 16),
           base64Digit((bytes[2] % 16) * 4), "=">>
  ELSE <<base64Digit(bytes[1] \div 4),
         base64Digit((bytes[1] % 4) * 16 + bytes[2] \div 16),
         base64Digit((bytes[2] % 16) * 4 + bytes[3] \div 64),
         base64Digit(bytes[3] % 64)>> \o toBase64(SubSeq(bytes, 4, Len(bytes)))

\* s.replace(/<from>/g, to) for one character.
replaceAll(s, from, to) == [i \in 1..Len(s) |-> IF s[i] = from THEN to ELSE s[i]]

\* The share id with the padding left in place.
toGraphShareId_padded(webUrl) ==
  <<"u", "!">> \o replaceAll(replaceAll(toBase64(utf8(webUrl)), "+", "-"), "/", "_")

\* Lines 1011-1015.
toGraphShareId(webUrl) ==
  LET base64 == toBase64(utf8(webUrl))
      base64Url == stripTrailing(replaceAll(replaceAll(base64, "+", "-"), "/", "_"), {"="})
  IN  <<"u", "!">> \o base64Url

\* [mapping.fullRemotePath, mapping.urlNamespace], blank ones dropped.
shareRootsOf(mapping) ==
  LET given == filterSeq(<<mapping.fullRemotePath, mapping.urlNamespace>>,
                         {v \in {mapping.fullRemotePath, mapping.urlNamespace} : ~isBlank(v)})
  IN  [i \in 1..Len(given) |-> normalizeShareBaseUrl(given[i])]


(***************************************************************************)
(* Versions.                                                               *)
(***************************************************************************)
\* A lastModifiedDateTime string: a wall-clock hour and a UTC offset in
\* hours ("T02:00:00+01:00" and "T01:00:00Z" are the same instant).
DateStrings == [hour : 1..MaxHour, offset : {0, 1}]

\* new Date(s).getTime(), in milliseconds.
getTime(s) == (s.hour - s.offset) * 3600000

\* The comparison with its operands exchanged: oldest first.
compareVersions_oldestFirst(a, b) ==
  getTime(a.lastModifiedDateTime) - getTime(b.lastModifiedDateTime)

\* (a, b) => new Date(b.lastModifiedDateTime).getTime()
\*             - new Date(a.lastModifiedDateTime).getTime()
compareVersions(a, b) == getTime(b.lastModifiedDateTime) - getTime(a.lastModifiedDateTime)

\* A sort that is not stable: an element goes before the elements it
\* compares equal to.
insertVersion_beforeEqual(sorted, v) ==
  LET after == {i \in 1..Len(sorted) : compareVersions(sorted[i], v) >= 0}
      stop == IF after = {} THEN Len(sorted)
              ELSE (CHOOSE i \in after : \A j \in after : i <= j) - 1
  IN  SubSeq(sorted, 1, stop) \o <<v>> \o SubSeq(sorted, stop + 1, Len(sorted))

\* Array.prototype.sort is stable: an element goes after every element that
\* does not compare greater than it.
insertVersion(sorted, v) ==
  LET after == {i \in 1..Len(sorted) : compareVersions(sorted[i], v) > 0}
      stop == IF after = {} THEN Len(sorted)
              ELSE (CHOOSE i \in after : \A j \in after : i <= j) - 1
  IN  SubSeq(sorted, 1, stop) \o <<v>> \o SubSeq(sorted, stop + 1, Len(sorted))

RECURSIVE sortVersions(_)
sortVersions(versions) ==
  IF versions = <<>> THEN <<>>
  ELSE insertVersion(sortVersions(SubSeq(versions, 1, Len(versions) - 1)),
                     versions[Len(versions)])


(***************************************************************************)
(* The host: settings, environment, registry and the files of the editor.  *)
(***************************************************************************)
OneDriveRoot == <<"/", "u", "/", "OneDrive">>

\* Registry URL metadata: FullRemotePath with the malformed "https:/", and
\* UrlNamespace.
FullRemotePath == <<"https:", "/", "h", "/", "s", "/">>
UrlNamespace == <<"https:", "/", "/", "H", "/", "s">>

DriveIds == {"D" \o ToString(i) : i \in 1..MaxDrives}
ItemIds == {"I1", "I2"}

\* What the three mapping sources hold on one host.
Hosts ==
  { \* nothing configured: the root is inferred from the folder name
    [settings |-> <<>>, environment |-> <<NoString, NoString, NoString>>,
     registry |-> <<>>],
    \* a configured drive with a remote root, and the OneDrive variable
    [settings |-> <<Mapping(OneDriveRoot \o <<"/">>, "D1", <<"r", "/">>, NoString, NoString),
                    Mapping(<<" ">>, "D2", NoString, NoString, NoString)>>,
     environment |-> <<OneDriveRoot, NoString, OneDriveRoot>>,
     registry |-> <<>>],
    \* a sync relationship of the registry, with its URL metadata
    [settings |-> <<>>, environment |-> <<NoString, NoString, NoString>>,
     registry |-> <<Mapping(OneDriveRoot, None, NoString, UrlNamespace, FullRemotePath)>>],
    \* a configured drive that also carries URL metadata
    [settings |-> <<Mapping(OneDriveRoot, "D1", NoString, UrlNamespace, NoString)>>,
     environment |-> <<NoString, NoString, NoString>>,
     registry |-> <<>>] }

\* The files a load is requested for.
LocalPaths ==
  { <<"/", "u", "/", "OneDrive", "/", "p", "/", "f">>,
    <<"/", "u", "/", "x", "/", "f">> }

(***************************************************************************)
(* The remote API: what one request can be answered with.                  *)
(***************************************************************************)
Ok == <<"ok">>

NotFound404 == GraphError("404", <<"itemNotFound">>)
Denied403 == GraphError("403", <<"accessDenied">>)
Server500 == GraphError("500", <<"generalException">>)
\* A server error whose body mentions the itemNotFound code.
Server500NotFound == GraphError("500", <<"itemNotFound">>)

\* A failed request: a response that is not ok, or no response at all.
Failures ==
  {NotFound404, Denied403, Server500, Server500NotFound, ErrAuthRequired, ErrFetchFailed}

\* GraphDriveItem
Items == [id : ItemIds, parentDriveId : DriveIds \cup {None}]

\* { value: GraphDrive[] } of /me/drives: distinct drives, in any order.
WebUrls == {NoString, <<"https:", "/", "/", "h", "/", "S">>, <<"https:", "/", "/", "g", "/", "s">>}

DriveOrders ==
  {order \in UNION {[1..n -> DriveIds] : n \in 0..MaxDrives} :
     \A i, j \in 1..Len(order) : i # j => order[i] # order[j]}

DriveLists(webUrls) ==
  UNION {{[i \in 1..Len(order) |-> [id |-> order[i], webUrl |-> urls[i]]] :
            urls \in [1..Len(order) -> webUrls]} : order \in DriveOrders}

\* { value: GraphVersion[] }: the id of a version is its place in the answer.
VersionLists ==
  UNION {{[i \in 1..n |-> [id |-> "v" \o ToString(i), lastModifiedDateTime |-> dates[i]]] :
            dates \in [1..n -> DateStrings]} : n \in 0..MaxVersions}


(***************************************************************************)
(* State.                                                                  *)
(***************************************************************************)
VARIABLES
  settings,                 \* onedriveVersions.mappings of the configuration
  environment,              \* OneDrive, OneDriveCommercial, OneDriveConsumer
  windowsRegistryMappings,  \* OneDriveClient.windowsRegistryMappings
  contextCache,             \* OneDriveClient.contextCache
  call,                     \* the local variables of each loadVersionsForFile call
  trace,                    \* history: what each call asked the remote API
  proc,                     \* the local variables of each event handler or command
  closed,                   \* history: documents closed, no load requested since
  contextKeys,              \* oneDriveVersions.active and oneDriveVersions.hasVersions
  probe,                    \* the last call of a function: its input, its output
  registry,                 \* the mappings a query of the Windows registry finds now
  auth,                     \* sign-in: settings, sessions, MSAL fields, the last call
  editor                    \* the active tab, the file's document, the last restore

vars == <<settings, environment, windowsRegistryMappings, contextCache, call, trace,
          proc, closed, contextKeys, probe, registry, auth, editor>>

\* The state no request, event handler or command touches.
elsewhere == <<probe, registry, auth, editor>>

\* The calls of loadVersionsForFile that can be in flight.
Calls == {"c1", "c2"}

\* No context key is set before the first updateActiveContext.
NoKeys == [active |-> None, hasVersions |-> None]

\* The editor of the file is active, its document has no unsaved edits, and
\* Restore Selected Version has not run.  tab: the active editor ("file",
\* the version "preview" of the file, or "other", one that names no file);
\* isDirty: the document of the file has unsaved edits; confirm: what the
\* confirmation dialog of the running restore returned; warning: the last
\* restore showed the unsaved-edits warning; wrote: the restore has written
\* the file, wroteDirty: over unsaved edits, wroteConfirmed: after 'Restore'.
NoEditor ==
  [tab |-> "file", isDirty |-> FALSE, confirm |-> "none", warning |-> FALSE,
   wrote |-> FALSE, wroteDirty |-> FALSE, wroteConfirmed |-> FALSE]

\* No function has been called.
NoProbe == [function |-> "none"]

\* The defaults of the settings, nobody signed in, getAccessToken not called.
NoAuth ==
  [mode |-> "vscode", clientId |-> <<>>, session |-> FALSE,
   msalClientId |-> NoString, msalAccountHomeId |-> None,
   asked |-> "none", prompts |-> {}, result |-> NoString]

ResolvedPaths == {pathResolve(p) : p \in LocalPaths}

VersionContext(driveId, itemId, versions, selectedIndex) ==
  [driveId |-> driveId, itemId |-> itemId, versions |-> versions,
   selectedIndex |-> selectedIndex]

IdleCall ==
  [pc |-> "idle", resolved |-> NoString, mapping |-> NoRecord,
   relativeSegments |-> <<>>, remotePath |-> NoString, error |-> NoString,
   item |-> NoRecord, driveId |-> None, versions |-> <<>>,
   \* getDriveItem
   remotePathCandidates |-> <<>>, candidate |-> 0, drives |-> <<>>, drive |-> 0,
   \* getDriveItemByDriveWebUrl
   targetUrls |-> <<>>, lookups |-> <<>>, lookup |-> 0,
   \* getDriveItemFromShareRoots
   shareRoots |-> <<>>, shareRoot |-> 0,
   thrown |-> NoString, returned |-> NoRecord]

(***************************************************************************)
(* The local variables of an event handler or command between two awaits.  *)
(* A handler or command that loads owns the call of the same name.  kind:  *)
(* what is running; pc: the await it stands at; localPath: the active file *)
(* it read; active: findOneDriveRoot found a mapping; cached: the value of *)
(* `cached` in updateActiveContext was a context; nextIndex: the argument  *)
(* of setSelectedIndex; loaded: the context ensureVersions holds across    *)
(* its await; at: where ensureVersions returns to; items: the length of    *)
(* the quick pick; set: what setSelectedIndex did (the length of the list, *)
(* the index asked for, the index written); message: the error message the *)
(* last handler or command displayed.                                      *)
(***************************************************************************)
IdleProc ==
  [kind |-> "none", pc |-> "idle", localPath |-> NoString, active |-> FALSE,
   cached |-> FALSE, at |-> "none", nextIndex |-> 0, items |-> 0,
   loaded |-> NoRecord, set |-> NoRecord, version |-> None, current |-> FALSE,
   message |-> NoString]

Request(strategy, drive, path) ==
  [strategy |-> strategy, drive |-> drive, path |-> path]

PathStrategies == {"direct", "default", "allDrives"}
ItemStrategies == PathStrategies \cup {"webUrl", "share"}

\* The function of loadVersionsForFile that issues the requests of a strategy.
functionOf(strategy) ==
  CASE strategy \in PathStrategies \cup {"enumerate"} -> "getDriveItem"
    [] strategy \in {"enumerateWebUrl", "webUrl"} -> "getDriveItemByDriveWebUrl"
    [] strategy = "share" -> "getDriveItemFromShareRoots"
    [] OTHER -> "getVersions"

\* The HTTP status of a failed request's response ("none": no response).
statusOf(error) ==
  IF Len(error) >= 2 /\ error[1] = "Graph request failed (" THEN error[2] ELSE "none"

(***************************************************************************)
(* History of one call.  log: the requests of the function now running, in *)
(* the order issued, followed by the versions request; found: the place in *)
(* log of the lookup that returned the item (0: none); enumerated: the     *)
(* drives /me/drives answered with; last: the answer to the last request;  *)
(* tried: the strategies that issued a request so far, in order;           *)
(* onlyMisses: every request so far was answered ok, or was an item lookup *)
(* answered 404; stored: the call has written contextCache; prior: the     *)
(* entry it replaced; after: the calls for the same file that were in      *)
(* flight when this one started and still are; overtaken: a call that      *)
(* started later for the same file has stored while this one was in flight;*)
(* lookups: the item lookups of the call so far; mostDrives: the length of *)
(* the longest drive enumeration it was answered with.                     *)
(***************************************************************************)
NoTrace ==
  [log |-> <<>>, found |-> 0, enumerated |-> <<>>, last |-> NoString,
   tried |-> <<>>, onlyMisses |-> TRUE, stored |-> FALSE, prior |-> NoRecord,
   after |-> {}, overtaken |-> FALSE, lookups |-> 0, mostDrives |-> 0]

driveIdsOf(drives) == [i \in 1..Len(drives) |-> drives[i].id]

\* note, but the request of a failed answer is not recorded.
note_unrecorded(t, request, answer, drives) ==
  [log |-> IF answer = Ok THEN Append(t.log, request) ELSE t.log,
   found |-> t.found, enumerated |-> t.enumerated, last |-> answer,
   tried |-> t.tried, onlyMisses |-> t.onlyMisses, stored |-> t.stored,
   prior |-> t.prior, after |-> t.after, overtaken |-> t.overtaken,
   lookups |-> t.lookups, mostDrives |-> t.mostDrives]

note(t, request, answer, drives) ==
  LET continued == \/ request.strategy = "versions"
                   \/ /\ t.log # <<>>
                      /\ functionOf(t.log[Len(t.log)].strategy) = functionOf(request.strategy)
      log == IF continued THEN Append(t.log, request) ELSE <<request>>
  IN  [log |-> log,
       found |-> IF answer = Ok /\ request.strategy \in ItemStrategies THEN Len(log)
                 ELSE IF continued THEN t.found ELSE 0,
       enumerated |-> IF answer = Ok /\ request.strategy \in {"enumerate", "enumerateWebUrl"}
                        THEN driveIdsOf(drives)
                      ELSE IF continued THEN t.enumerated ELSE <<>>,
       last |-> answer,
       tried |-> IF request.strategy \in Range(t.tried) THEN t.tried
                 ELSE Append(t.tried, request.strategy),
       onlyMisses |-> /\ t.onlyMisses
                      /\ \/ answer = Ok
                         \/ request.strategy \in ItemStrategies /\ statusOf(answer) = "404",
       stored |-> t.stored, prior |-> t.prior, after |-> t.after,
       overtaken |-> t.overtaken,
       lookups |-> IF request.strategy \in ItemStrategies THEN t.lookups + 1
                   ELSE t.lookups,
       mostDrives |-> IF Len(drives) > t.mostDrives THEN Len(drives) ELSE t.mostDrives]

\* The call is between its first request and its return.
inFlight(cl) == cl.pc \notin {"idle", "done"}

\* The request a call of loadVersionsForFile is waiting on at its await
\* (lines 331, 344, 352, 361, 387, 410, 432 and 444), none when it is not
\* at an await.
awaitedRequest(cl) ==
  CASE cl.pc = "direct" ->
         Request("direct", cl.mapping.driveId, cl.remotePathCandidates[cl.candidate])
    [] cl.pc = "default" ->
         Request("default", "me", cl.remotePathCandidates[cl.candidate])
    [] cl.pc = "drives" -> Request("enumerate", None, <<>>)
    [] cl.pc = "allDrives" ->
         Request("allDrives", cl.drives[cl.drive].id,
                 cl.remotePathCandidates[cl.candidate])
    [] cl.pc = "urlDrives" -> Request("enumerateWebUrl", None, <<>>)
    [] cl.pc = "urlLookup" -> cl.lookups[cl.lookup]
    [] cl.pc = "share" ->
         Request("share", None,
                 appendPathSegmentsToUrl(cl.shareRoots[cl.shareRoot],
                                         cl.relativeSegments))
    [] cl.pc = "versions" -> Request("versions", cl.driveId, <<cl.item.id>>)
    [] OTHER -> NoRecord

Init ==
  /\ \E host \in Hosts :
       /\ settings = host.settings
       /\ environment = host.environment
       /\ windowsRegistryMappings = host.registry
  /\ contextCache = [p \in ResolvedPaths |-> NoRecord]
  /\ call = [c \in Calls |-> IdleCall]
  /\ trace = [c \in Calls |-> NoTrace]
  /\ proc = [c \in Calls |-> IdleProc]
  /\ closed = {}
  /\ contextKeys = NoKeys
  /\ probe = NoProbe
  /\ registry = windowsRegistryMappings
  /\ auth = NoAuth
  /\ editor = NoEditor

(***************************************************************************)
(* loadVersionsForFile, from one await to the next.                        *)
(***************************************************************************)
\* The locals of a function are gone when it returns or throws.
leaveGetDriveItem(cl) ==
  [cl EXCEPT !.remotePathCandidates = <<>>, !.candidate = 0,
             !.drives = <<>>, !.drive = 0]

leaveDriveWebUrl(cl) ==
  [cl EXCEPT !.targetUrls = <<>>, !.drives = <<>>, !.lookups = <<>>, !.lookup = 0]

leaveShareRoots(cl) == [cl EXCEPT !.shareRoot = 0]

leave(cl) == leaveShareRoots(leaveDriveWebUrl(leaveGetDriveItem(cl)))

\* loadVersionsForFile throws.
throw(cl, error) == [leave(cl) EXCEPT !.pc = "done", !.thrown = error]

\* The drive id taken from the mapping alone.
resolveDriveId_mappingOnly(cl, item) ==
  IF cl.mapping.driveId = None THEN throw([cl EXCEPT !.item = item], ErrNoDriveId)
  ELSE [leave(cl) EXCEPT !.item = item, !.driveId = cl.mapping.driveId,
                         !.pc = "versions"]

\* Lines 118-128: the item is known.
resolveDriveId(cl, item) ==
  LET driveId == IF item.parentDriveId # None THEN item.parentDriveId
                 ELSE cl.mapping.driveId
  IN  IF driveId = None THEN throw([cl EXCEPT !.item = item], ErrNoDriveId)
      ELSE [leave(cl) EXCEPT !.item = item, !.driveId = driveId, !.pc = "versions"]

\* Lines 107-115: no item after the drive web-URL fallback.
tryShareRoots(cl) ==
  LET shareRoots == shareRootsOf(cl.mapping)
  IN  IF shareRoots = <<>> THEN throw(cl, cl.error)
      ELSE [cl EXCEPT !.pc = "share", !.shareRoots = shareRoots, !.shareRoot = 1]

\* Lines 101-105: getDriveItemByDriveWebUrl threw.
catchDriveUrlError(cl, driveUrlError) ==
  IF ~isGraphNotFound(driveUrlError) /\ ~isGraphAccessDenied(driveUrlError)
    THEN throw(cl, driveUrlError)
    ELSE tryShareRoots(leaveDriveWebUrl(cl))

\* A lookup in the root of every enumerated drive, whatever its web URL.
driveWebUrlLookups_everyDrive(drives, targetUrls, t) ==
  [i \in 1..Len(drives) |-> Request("webUrl", drives[i].id, <<"/">>)]

\* The (drive, path) lookups of getDriveItemByDriveWebUrl's loops (lines
\* 392-408), in order.
RECURSIVE driveWebUrlLookups(_, _, _)
driveWebUrlLookups(drives, targetUrls, t) ==
  IF drives = <<>> THEN <<>>
  ELSE IF t > Len(targetUrls) THEN driveWebUrlLookups(Tail(drives), targetUrls, 1)
  ELSE LET drive == Head(drives)
           driveWebUrl == IF drive.webUrl # NoString /\ drive.webUrl # <<>>
                            THEN normalizeShareBaseUrl(drive.webUrl) ELSE <<>>
           relative == getRelativePathByUrlPrefix(targetUrls[t], driveWebUrl)
           encodedRelative == join(mapEncode(nonEmpty(split(relative, "/"))), "/")
           candidatePath == IF encodedRelative # <<>> THEN <<"/">> \o encodedRelative
                            ELSE <<"/">>
       IN  IF driveWebUrl = <<>> THEN driveWebUrlLookups(Tail(drives), targetUrls, 1)
           ELSE IF relative = NoString THEN driveWebUrlLookups(drives, targetUrls, t + 1)
           ELSE <<Request("webUrl", drive.id, candidatePath)>>
                  \o driveWebUrlLookups(drives, targetUrls, t + 1)

\* The catch block going to the share roots at once.
catchItemError_shareRootsFirst(cl, error) ==
  IF ~isGraphNotFound(error) /\ ~isGraphAccessDenied(error) THEN throw(cl, error)
  ELSE tryShareRoots([leaveGetDriveItem(cl) EXCEPT !.error = error])

\* Lines 94-100 and 378-390: getDriveItem threw; up to the drive enumeration
\* of getDriveItemByDriveWebUrl.
catchItemError(cl, error) ==
  IF ~isGraphNotFound(error) /\ ~isGraphAccessDenied(error) THEN throw(cl, error)
  ELSE LET caught == [leaveGetDriveItem(cl) EXCEPT !.error = error]
           shareRoots == shareRootsOf(cl.mapping)
           targetUrls == [i \in 1..Len(shareRoots) |->
                            appendPathSegmentsToUrl(shareRoots[i], cl.relativeSegments)]
       IN  IF shareRoots = <<>> THEN catchDriveUrlError(caught, ErrNoUrlMetadata)
           ELSE IF \E i \in 1..Len(targetUrls) : targetUrls[i] = NoString
             THEN catchDriveUrlError(caught, ErrInvalidUrl)
           ELSE [caught EXCEPT !.pc = "urlDrives", !.targetUrls = targetUrls]

\* The first candidate not found ends the lookups.
candidateFailed_firstOnly(cl, error, next, exhausted) ==
  IF ~isGraphNotFound(error) THEN catchItemError(cl, error)
  ELSE catchItemError(cl, exhausted)

\* A candidate that was not found is looked up again.
candidateFailed_again(cl, error, next, exhausted) ==
  IF ~isGraphNotFound(error) THEN catchItemError(cl, error) ELSE cl

\* Lines 331-336, 344-349 and 361-366: a candidate lookup of getDriveItem
\* failed; `next` is the call at the next lookup, or NoRecord after the last.
candidateFailed(cl, error, next, exhausted) ==
  IF ~isGraphNotFound(error) THEN catchItemError(cl, error)
  ELSE IF next # NoRecord THEN next
  ELSE catchItemError(cl, exhausted)

\* Lines 82-93 and 324-327: up to the first request.
loadVersionsForFile(c, localPath) ==
  /\ \E resolved \in {pathResolve(localPath)} :
     \E mapping \in {resolveBestMapping(resolved, settings, environment,
                                        windowsRegistryMappings)} :
       IF mapping = NoRecord
         THEN call' = [call EXCEPT ![c] =
                throw([IdleCall EXCEPT !.resolved = resolved], ErrNoMapping)]
         ELSE \E relativeSegments \in {toRelativeSegments(mapping, resolved)} :
                IF relativeSegments = NoString
                  THEN call' = [call EXCEPT ![c] =
                         throw([IdleCall EXCEPT !.resolved = resolved,
                                                !.mapping = mapping],
                               ErrOutsideRoot)]
                  ELSE \E remotePath \in {toRemotePath(mapping, relativeSegments)} :
                         call' = [call EXCEPT ![c] =
                           [IdleCall EXCEPT
                              !.resolved = resolved,
                              !.mapping = mapping,
                              !.relativeSegments = relativeSegments,
                              !.remotePath = remotePath,
                              !.remotePathCandidates =
                                 buildRemotePathCandidates(remotePath),
                              !.candidate = 1,
                              !.pc = IF mapping.driveId # None THEN "direct"
                                     ELSE "default"]]
  /\ trace' = [trace EXCEPT ![c] =
       [NoTrace EXCEPT !.after =
          {d \in Calls \ {c} : /\ inFlight(call[d])
                                /\ call[d].resolved = pathResolve(localPath)}]]

\* A caller asks getCachedContext first and loads without a cached context
\* (lines 157, 707, 732, 776).
LoadStart(c, localPath) ==
  /\ call[c].pc = "idle"
  /\ contextCache[pathResolve(localPath)] = NoRecord
  /\ loadVersionsForFile(c, localPath)
  /\ UNCHANGED <<settings, environment, windowsRegistryMappings,
                 contextCache, proc, closed, contextKeys, elsewhere>>

\* Lines 328-338: one candidate against the mapping's drive.
DirectLookup(c) ==
  /\ call[c].pc = "direct"
  /\ LET cl == call[c]
         request == Request("direct", cl.mapping.driveId,
                            cl.remotePathCandidates[cl.candidate])
         next == IF cl.candidate < Len(cl.remotePathCandidates)
                   THEN [cl EXCEPT !.candidate = @ + 1] ELSE NoRecord
     IN  \/ \E item \in Items :
               /\ call' = [call EXCEPT ![c] = resolveDriveId(cl, item)]
               /\ trace' = [trace EXCEPT ![c] = note(@, request, Ok, <<>>)]
         \/ \E error \in Failures :
               /\ call' = [call EXCEPT ![c] =
                    candidateFailed(cl, error, next, ErrConfiguredDrive)]
               /\ trace' = [trace EXCEPT ![c] = note(@, request, error, <<>>)]
  /\ UNCHANGED <<settings, environment, windowsRegistryMappings,
                 contextCache, proc, closed, contextKeys, elsewhere>>

\* Lines 341-350: one candidate against /me/drive.
DefaultDriveLookup(c) ==
  /\ call[c].pc = "default"
  /\ LET cl == call[c]
         request == Request("default", "me", cl.remotePathCandidates[cl.candidate])
         next == IF cl.candidate < Len(cl.remotePathCandidates)
                   THEN [cl EXCEPT !.candidate = @ + 1]
                   ELSE [cl EXCEPT !.pc = "drives"]
     IN  \/ \E item \in Items :
               /\ call' = [call EXCEPT ![c] = resolveDriveId(cl, item)]
               /\ trace' = [trace EXCEPT ![c] = note(@, request, Ok, <<>>)]
         \/ \E error \in Failures :
               /\ call' = [call EXCEPT ![c] =
                    candidateFailed(cl, error, next, ErrAllDrives)]
               /\ trace' = [trace EXCEPT ![c] = note(@, request, error, <<>>)]
  /\ UNCHANGED <<settings, environment, windowsRegistryMappings,
                 contextCache, proc, closed, contextKeys, elsewhere>>

\* Lines 352-357: /me/drives.
EnumerateDrives(c) ==
  /\ call[c].pc = "drives"
  /\ LET cl == call[c]
         request == Request("enumerate", None, <<>>)
     IN  \/ \E error \in Failures :
               /\ call' = [call EXCEPT ![c] = catchItemError(cl, error)]
               /\ trace' = [trace EXCEPT ![c] = note(@, request, error, <<>>)]
         \/ \E drives \in DriveLists({NoString}) :
               /\ call' = [call EXCEPT ![c] =
                    IF drives = <<>> THEN catchItemError(cl, ErrAllDrives)
                    ELSE [cl EXCEPT !.pc = "allDrives", !.drives = drives,
                                    !.drive = 1, !.candidate = 1]]
               /\ trace' = [trace EXCEPT ![c] = note(@, request, Ok, drives)]
  /\ UNCHANGED <<settings, environment, windowsRegistryMappings,
                 contextCache, proc, closed, contextKeys, elsewhere>>

\* Lines 357-370: one candidate against one enumerated drive.
AllDrivesLookup(c) ==
  /\ call[c].pc = "allDrives"
  /\ LET cl == call[c]
         request == Request("allDrives", cl.drives[cl.drive].id,
                            cl.remotePathCandidates[cl.candidate])
         next == IF cl.candidate < Len(cl.remotePathCandidates)
                   THEN [cl EXCEPT !.candidate = @ + 1]
                 ELSE IF cl.drive < Len(cl.drives)
                   THEN [cl EXCEPT !.drive = @ + 1, !.candidate = 1]
                 ELSE NoRecord
     IN  \/ \E item \in Items :
               /\ call' = [call EXCEPT ![c] = resolveDriveId(cl, item)]
               /\ trace' = [trace EXCEPT ![c] = note(@, request, Ok, <<>>)]
         \/ \E error \in Failures :
               /\ call' = [call EXCEPT ![c] =
                    candidateFailed(cl, error, next, ErrAllDrives)]
               /\ trace' = [trace EXCEPT ![c] = note(@, request, error, <<>>)]
  /\ UNCHANGED <<settings, environment, windowsRegistryMappings,
                 contextCache, proc, closed, contextKeys, elsewhere>>

\* Lines 387-392: /me/drives with the web URLs.
EnumerateDriveWebUrls(c) ==
  /\ call[c].pc = "urlDrives"
  /\ LET cl == call[c]
         request == Request("enumerateWebUrl", None, <<>>)
     IN  \/ \E drives \in DriveLists(WebUrls) :
               /\ call' = [call EXCEPT ![c] =
                    LET lookups == driveWebUrlLookups(drives, cl.targetUrls, 1)
                    IN  IF lookups = <<>> THEN catchDriveUrlError(cl, ErrDriveWebUrl)
                        ELSE [cl EXCEPT !.pc = "urlLookup", !.drives = drives,
                                        !.lookups = lookups, !.lookup = 1]]
               /\ trace' = [trace EXCEPT ![c] = note(@, request, Ok, drives)]
         \/ \E error \in Failures :
               /\ call' = [call EXCEPT ![c] = catchDriveUrlError(cl, error)]
               /\ trace' = [trace EXCEPT ![c] = note(@, request, error, <<>>)]
  /\ UNCHANGED <<settings, environment, windowsRegistryMappings,
                 contextCache, proc, closed, contextKeys, elsewhere>>

\* Lines 408-419: one lookup in a drive whose web URL is a prefix of a target.
DriveWebUrlLookup(c) ==
  /\ call[c].pc = "urlLookup"
  /\ LET cl == call[c]
         request == cl.lookups[cl.lookup]
     IN  \/ \E item \in Items :
               /\ call' = [call EXCEPT ![c] = resolveDriveId(cl, item)]
               /\ trace' = [trace EXCEPT ![c] = note(@, request, Ok, <<>>)]
         \/ \E error \in Failures :
               /\ call' = [call EXCEPT ![c] =
                    IF ~isGraphNotFound(error) /\ ~isGraphAccessDenied(error)
                      THEN catchDriveUrlError(cl, error)
                    ELSE IF cl.lookup < Len(cl.lookups)
                      THEN [cl EXCEPT !.lookup = @ + 1]
                    ELSE catchDriveUrlError(cl, ErrDriveWebUrl)]
               /\ trace' = [trace EXCEPT ![c] = note(@, request, error, <<>>)]
  /\ UNCHANGED <<settings, environment, windowsRegistryMappings,
                 contextCache, proc, closed, contextKeys, elsewhere>>

\* Lines 427-439: /shares/{id}/driveItem for one share root.
ShareLookup(c) ==
  /\ call[c].pc = "share"
  /\ LET cl == call[c]
         shareUrl == appendPathSegmentsToUrl(cl.shareRoots[cl.shareRoot],
                                             cl.relativeSegments)
         request == Request("share", None, shareUrl)
     IN  \/ \E item \in Items :
               /\ call' = [call EXCEPT ![c] = resolveDriveId(cl, item)]
               /\ trace' = [trace EXCEPT ![c] = note(@, request, Ok, <<>>)]
         \/ \E error \in Failures :
               /\ call' = [call EXCEPT ![c] =
                    IF ~isGraphNotFound(error) THEN throw(cl, error)
                    ELSE IF cl.shareRoot < Len(cl.shareRoots)
                      THEN [cl EXCEPT !.shareRoot = @ + 1]
                    ELSE throw(cl, ErrShareUrl)]
               /\ trace' = [trace EXCEPT ![c] = note(@, request, error, <<>>)]
  /\ UNCHANGED <<settings, environment, windowsRegistryMappings,
                 contextCache, proc, closed, contextKeys, elsewhere>>

\* The new context keeps the selection of the entry it replaces.
contextCacheSet_keepSelection(cache, resolved, versionContext) ==
  [cache EXCEPT ![resolved] =
     IF @ = NoRecord THEN versionContext
     ELSE [versionContext EXCEPT !.selectedIndex = cache[resolved].selectedIndex]]

\* The first context stored for a file stays.
contextCacheSet_ifAbsent(cache, resolved, versionContext) ==
  [cache EXCEPT ![resolved] = IF @ = NoRecord THEN versionContext ELSE @]

\* The context put in the place of every entry.
contextCacheSet_everyPath(cache, resolved, versionContext) ==
  [p \in DOMAIN cache |-> versionContext]

\* Line 144: Map.set puts the context in the place of any entry of the key.
contextCacheSet(cache, resolved, versionContext) ==
  [cache EXCEPT ![resolved] = versionContext]

\* The test of line 133 never succeeding.
hasNoVersions_never(sorted) == FALSE

\* Line 133: the sorted list is empty.
hasNoVersions(sorted) == Len(sorted) = 0

\* Line 144 moved before the test of line 133: the context is stored, then
\* an empty list is answered with the error.
getVersionsAndStore_storeFirst(c) ==
  /\ call[c].pc = "versions"
  /\ LET cl == call[c]
         request == Request("versions", cl.driveId, <<cl.item.id>>)
     IN  \/ \E versions \in VersionLists :
               LET sorted == sortVersions(versions)
                   versionContext == VersionContext(cl.driveId, cl.item.id, sorted, 0)
               IN  /\ call' = [call EXCEPT ![c] =
                         IF hasNoVersions(sorted)
                           THEN throw([cl EXCEPT !.versions = versions], ErrNoVersions)
                           ELSE [cl EXCEPT !.pc = "done", !.versions = versions,
                                           !.returned = versionContext]]
                   /\ trace' = [trace EXCEPT ![c] = note(@, request, Ok, <<>>)]
                   /\ contextCache' =
                        contextCacheSet(contextCache, cl.resolved, versionContext)
         \/ \E error \in Failures :
               /\ call' = [call EXCEPT ![c] = throw(cl, error)]
               /\ trace' = [trace EXCEPT ![c] = note(@, request, error, <<>>)]
               /\ UNCHANGED contextCache

\* Lines 128-145 and 442-446: the versions of the item, sorted and stored.
getVersionsAndStore(c) ==
  /\ call[c].pc = "versions"
  /\ LET cl == call[c]
         request == Request("versions", cl.driveId, <<cl.item.id>>)
     IN  \/ \E versions \in VersionLists :
               LET sorted == sortVersions(versions)
                   versionContext == VersionContext(cl.driveId, cl.item.id, sorted, 0)
               IN  IF hasNoVersions(sorted)
                     THEN /\ call' = [call EXCEPT ![c] =
                               throw([cl EXCEPT !.versions = versions], ErrNoVersions)]
                          /\ trace' = [trace EXCEPT ![c] = note(@, request, Ok, <<>>)]
                          /\ UNCHANGED contextCache
                     ELSE /\ call' = [call EXCEPT ![c] =
                               [cl EXCEPT !.pc = "done", !.versions = versions,
                                          !.returned = versionContext]]
                          /\ trace' = [d \in Calls |->
                               IF d = c
                                 THEN [note(trace[c], request, Ok, <<>>) EXCEPT
                                         !.stored = TRUE,
                                         !.prior = contextCache[cl.resolved]]
                               ELSE IF d \in trace[c].after
                                 THEN [trace[d] EXCEPT !.overtaken = TRUE]
                               ELSE trace[d]]
                          /\ contextCache' =
                               contextCacheSet(contextCache, cl.resolved, versionContext)
         \/ \E error \in Failures :
               /\ call' = [call EXCEPT ![c] = throw(cl, error)]
               /\ trace' = [trace EXCEPT ![c] = note(@, request, error, <<>>)]
               /\ UNCHANGED contextCache

LoadVersions(c) ==
  /\ getVersionsAndStore(c)
  /\ UNCHANGED <<settings, environment, windowsRegistryMappings, proc,
                 closed, contextKeys, elsewhere>>

\* The histories once call c has returned.
historiesAfterReturn(c) ==
  [d \in Calls |-> IF d = c THEN NoTrace
                   ELSE [trace[d] EXCEPT !.after = @ \ {c}]]

\* The caller takes the context or the error.
LoadReturn(c) ==
  /\ call[c].pc = "done"
  /\ call' = [call EXCEPT ![c] = IdleCall]
  /\ trace' = historiesAfterReturn(c)
  /\ UNCHANGED <<settings, environment, windowsRegistryMappings,
                 contextCache, proc, closed, contextKeys, elsewhere>>

\* Lines 152-154, from onDidCloseTextDocument (lines 897-901).
clearCachedContext(localPath) ==
  /\ contextCache' = [contextCache EXCEPT ![pathResolve(localPath)] = NoRecord]
  /\ UNCHANGED <<settings, environment, windowsRegistryMappings, call,
                 trace, proc, closed, contextKeys, elsewhere>>

\* One call at a time.
Next ==
  \/ \E localPath \in LocalPaths : LoadStart("c1", localPath)
  \/ DirectLookup("c1")
  \/ DefaultDriveLookup("c1")
  \/ EnumerateDrives("c1")
  \/ AllDrivesLookup("c1")
  \/ EnumerateDriveWebUrls("c1")
  \/ DriveWebUrlLookup("c1")
  \/ ShareLookup("c1")
  \/ LoadVersions("c1")
  \/ LoadReturn("c1")
  \/ \E localPath \in LocalPaths : clearCachedContext(localPath)

Spec == Init /\ [][Next]_vars

(***************************************************************************)
(* The extension: event handlers and commands on the active file, from one *)
(* await to the next.  A call of updateActiveContext or of                 *)
(* loadVersionsForFile runs to its first await, and the continuation of an *)
(* await on loadVersionsForFile runs, before any other event, command or   *)
(* response is handled.                                                    *)
(***************************************************************************)
\* getActiveFilePath (lines 917-935): the file of the active editor.
ActiveFile == <<"/", "u", "/", "x", "/", "f">>

\* onedriveVersions.mappings: no mapping, or the folder of the active file.
ConfiguredMappings ==
  {<<>>, <<Mapping(<<"/", "u", "/", "x">>, "D1", NoString, NoString, NoString)>>}

\* What the remote API answers while the editor runs: the item or a server
\* error; one, two or no versions.
EditorItems == {[id |-> "I1", parentDriveId |-> None]}
EditorFailures == {Server500}
EditorVersionLists ==
  {versions \in VersionLists :
     \A i \in 1..Len(versions) :
       versions[i].lastModifiedDateTime = [hour |-> i, offset |-> 0]}

\* path.resolve(localPath) of lines 149 and 153.
resolvedPath == [localPath \in LocalPaths |-> pathResolve(localPath)]

\* The store read as if it held nothing.
getCachedContext_none(localPath) == NoRecord

\* Lines 148-150.
getCachedContext(localPath) == contextCache[resolvedPath[localPath]]

\* No root is ever detected.
findOneDriveRoot_none(localPath) == NoRecord

\* Lines 162-164.
findOneDriveRoot(localPath) ==
  resolveBestMapping(pathResolve(localPath), settings, environment,
                     windowsRegistryMappings)

\* The awaits on loadVersionsForFile.
LoadingPcs == {"autoLoad", "ensure", "previewLoad", "downloadLoad"}

\* c has called loadVersionsForFile, which has yet to run.
calling(c) == proc[c].pc \in LoadingPcs /\ call[c].pc = "idle"

\* Nothing has to run before the next event, command or response.
quiet ==
  \A d \in Calls : call[d].pc # "done" /\ ~calling(d) /\ proc[d].pc # "start"

\* The context a handler holds across an await is the object in the store.
Live == [live |-> TRUE]

\* The object the handler holds in `loaded`.
loadedOf(c) ==
  IF proc[c].loaded = Live THEN contextCache[resolvedPath[proc[c].localPath]]
  ELSE proc[c].loaded

\* The store drops or replaces the entry of a file: the handlers that hold
\* the object keep it.
detached(resolved) ==
  [d \in Calls |->
     IF proc[d].loaded = Live /\ resolvedPath[proc[d].localPath] = resolved
       THEN [proc[d] EXCEPT !.loaded = contextCache[resolved]]
       ELSE proc[d]]

\* The handler or command of c ends; its last message stays on display.
finish(c, message) == [proc EXCEPT ![c] = [IdleProc EXCEPT !.message = message]]

\* Lines 618-651: the message handleOneDriveError displays.
handleOneDriveError(error) == <<"OneDrive Versions: ">> \o error

\* What an await on requests may fail with: AUTH_REQUIRED only without
\* interaction (lines 448-471).
failuresFor(c) ==
  EditorFailures \cup (IF proc[c].kind = "update" THEN {ErrAuthRequired} ELSE {})

\* Lines 894-896 and 909-910: updateActiveContext is called.
ChangeActiveTextEditor(c) ==
  /\ quiet
  /\ proc[c].pc = "idle"
  /\ proc' = [proc EXCEPT ![c] = [IdleProc EXCEPT !.kind = "update", !.pc = "start"]]
  /\ UNCHANGED <<settings, environment, windowsRegistryMappings, contextCache,
                 call, trace, closed, contextKeys, elsewhere>>

\* Lines 902-906: the mappings of the configuration have changed.
ChangeConfiguration(c) ==
  /\ quiet
  /\ proc[c].pc = "idle"
  /\ settings' \in ConfiguredMappings \ {settings}
  /\ proc' = [proc EXCEPT ![c] = [IdleProc EXCEPT !.kind = "update", !.pc = "start"]]
  /\ UNCHANGED <<environment, windowsRegistryMappings, contextCache, call,
                 trace, closed, contextKeys, elsewhere>>

\* Lines 675-678: updateActiveContext to its first await.
UpdateStart(c) ==
  /\ proc[c].pc = "start"
  /\ \E active \in {findOneDriveRoot(ActiveFile) # NoRecord} :
       /\ proc' = [proc EXCEPT ![c] =
            [@ EXCEPT !.pc = "active", !.localPath = ActiveFile, !.active = active]]
       /\ contextKeys' = [contextKeys EXCEPT !.active = active]
  /\ UNCHANGED <<settings, environment, windowsRegistryMappings, contextCache,
                 call, trace, closed, elsewhere>>

\* Lines 680-686: the file is under no root, or the store is read.
UpdateActive(c) ==
  /\ quiet
  /\ proc[c].kind = "update" /\ proc[c].pc = "active"
  /\ \E cached \in {getCachedContext(proc[c].localPath)} :
       IF ~proc[c].active
         THEN /\ proc' = finish(c, NoString)
              /\ contextKeys' = [contextKeys EXCEPT !.hasVersions = FALSE]
         ELSE /\ proc' = [proc EXCEPT ![c] =
                   [@ EXCEPT !.pc = "cached", !.cached = cached # NoRecord]]
              /\ contextKeys' = [contextKeys EXCEPT !.hasVersions =
                   cached # NoRecord /\ Len(cached.versions) # 0]
  /\ UNCHANGED <<settings, environment, windowsRegistryMappings, contextCache,
                 call, trace, closed, elsewhere>>

\* Lines 688-691: the load in the background, unless `cached` was a context
\* or autoLoadVersions is off.
UpdateCached(c) ==
  /\ quiet
  /\ proc[c].kind = "update" /\ proc[c].pc = "cached"
  /\ \E autoLoad \in BOOLEAN :
       proc' = IF autoLoad /\ ~proc[c].cached
                 THEN [proc EXCEPT ![c].pc = "autoLoad"]
                 ELSE finish(c, NoString)
  /\ UNCHANGED <<settings, environment, windowsRegistryMappings, contextCache,
                 call, trace, closed, contextKeys, elsewhere>>

\* Lines 82-93: a handler or command has called loadVersionsForFile.
LoadRequested(c) ==
  /\ calling(c)
  /\ loadVersionsForFile(c, proc[c].localPath)
  /\ closed' = closed \ {resolvedPath[proc[c].localPath]}
  /\ UNCHANGED <<settings, environment, windowsRegistryMappings,
                 contextCache, proc, contextKeys, elsewhere>>

\* The mapping-not-found message taken for any other.
isMappingNotFound_never(msg) == FALSE

\* Line 699: the message is that of a file under no detected root.
isMappingNotFound(msg) == includes(msg, <<"inside a detected OneDrive root">>)

\* AUTH_REQUIRED taken for any other failure.
isAuthRequired_never(msg) == FALSE

\* Line 695: the load needs a sign-in it may not ask for.
isAuthRequired(msg) == msg = ErrAuthRequired

\* Lines 692-702: the background load has returned or thrown.
UpdateLoaded(c) ==
  /\ proc[c].kind = "update" /\ proc[c].pc = "autoLoad"
  /\ call[c].pc = "done"
  /\ \E msg \in {call[c].thrown} :
       /\ proc' = IF call[c].returned # NoRecord THEN finish(c, NoString)
                  ELSE IF isAuthRequired(msg) THEN finish(c, NoString)
                  ELSE IF ~isMappingNotFound(msg)
                    THEN finish(c, handleOneDriveError(msg))
                  ELSE finish(c, NoString)
       /\ contextKeys' =
            IF call[c].returned # NoRecord
              THEN [contextKeys EXCEPT !.hasVersions = TRUE]
            ELSE IF isAuthRequired(msg)
              THEN [contextKeys EXCEPT !.hasVersions = FALSE]
            ELSE contextKeys
  /\ call' = [call EXCEPT ![c] = IdleCall]
  /\ trace' = historiesAfterReturn(c)
  /\ UNCHANGED <<settings, environment, windowsRegistryMappings,
                 contextCache, closed, elsewhere>>

\* Lines 897-901: the document of the file closes.
CloseTextDocument(localPath) ==
  /\ quiet
  /\ contextCache' = [contextCache EXCEPT ![resolvedPath[localPath]] = NoRecord]
  /\ proc' = detached(resolvedPath[localPath])
  /\ closed' = closed \cup {resolvedPath[localPath]}
  /\ UNCHANGED <<settings, environment, windowsRegistryMappings, call,
                 trace, contextKeys, elsewhere>>

\* The item lookup of a load is answered.
ItemAnswered(c) ==
  /\ quiet
  /\ DirectLookup(c)
  /\ \/ trace'[c].last = Ok /\ call'[c].item \in EditorItems
     \/ trace'[c].last \in failuresFor(c)

\* The versions request of a load is answered.
VersionsAnswered(c) ==
  /\ quiet
  /\ getVersionsAndStore(c)
  /\ \/ trace'[c].last = Ok /\ call'[c].versions \in EditorVersionLists
     \/ trace'[c].last \in failuresFor(c)
  /\ proc' = IF trace'[c].stored THEN detached(call[c].resolved) ELSE proc
  /\ UNCHANGED <<settings, environment, windowsRegistryMappings, closed,
                 contextKeys, elsewhere>>

\* Math.max and Math.min
max(a, b) == IF a >= b THEN a ELSE b
min(a, b) == IF a <= b THEN a ELSE b

\* Line 736 without Math.max.
clamp_noFloor(versionsLength, nextIndex) == min(versionsLength - 1, nextIndex)

\* The index written as it was asked for.
clamp_unsaturated(versionsLength, nextIndex) == nextIndex

\* Line 736.
clamp(versionsLength, nextIndex) == max(0, min(versionsLength - 1, nextIndex))

ErrNoVersionsAvailable == <<"No versions available.">>
ErrNoVersionSelected == <<"No version selected.">>

\* Lines 707-721: the preview document of the selected version is opened;
\* the versions are sorted, so the first one is the current version of the
\* item.
opening(base, data) ==
  [base EXCEPT !.pc = "opening",
               !.version = data.versions[data.selectedIndex + 1].id,
               !.current = data.selectedIndex = 0]

\* Lines 725-726: ensureVersions to its await on the load; `at` is where it
\* returns to, a command or setSelectedIndex.
ensureVersions(c, base, at, nextIndex) ==
  /\ proc' = [proc EXCEPT ![c] =
       [base EXCEPT !.pc = "ensure", !.at = at, !.nextIndex = nextIndex]]
  /\ UNCHANGED contextCache

\* Lines 733-738 and 706-722: setSelectedIndex once it has `state` (the
\* stored object, written Live, or one the store has dropped), then
\* openSelectedVersionPreview to its first await.
selectAndPreview(c, base, state, nextIndex) ==
  \E resolved \in {resolvedPath[base.localPath]} :
  \E object \in {IF state = Live THEN contextCache[resolved] ELSE state} :
  \E clamped \in {clamp(Len(object.versions), nextIndex)} :
  \E written \in {[object EXCEPT !.selectedIndex = clamped]} :
  \E cache \in {IF state = Live
                  THEN [contextCache EXCEPT ![resolved] = written]
                  ELSE contextCache} :
  \E data \in {cache[resolved]} :
  \E done \in {[base EXCEPT !.set = [length |-> Len(written.versions),
                                     nextIndex |-> nextIndex,
                                     selectedIndex |-> written.selectedIndex]]} :
      IF Len(object.versions) = 0
        THEN /\ proc' = finish(c, handleOneDriveError(ErrNoVersionsAvailable))
             /\ UNCHANGED contextCache
      ELSE /\ contextCache' = cache
           /\ proc' =
                IF data = NoRecord
                  THEN [proc EXCEPT ![c] = [done EXCEPT !.pc = "previewLoad"]]
                ELSE IF data.selectedIndex \notin 0..(Len(data.versions) - 1)
                  THEN finish(c, handleOneDriveError(ErrNoVersionSelected))
                ELSE [proc EXCEPT ![c] = opening(done, data)]

\* Line 732: setSelectedIndex to its first await.
setSelectedIndex(c, base, nextIndex) ==
  IF getCachedContext(base.localPath) # NoRecord
    THEN selectAndPreview(c, base, Live, nextIndex)
    ELSE ensureVersions(c, base, "set", nextIndex)

\* Previous Version towards the newer version, Next Version towards the older.
stepOf_reversed(kind) == IF kind = "previous" THEN 0 - 1 ELSE 1

\* Lines 801-824: Previous Version (step 1) and Next Version (step -1).
stepOf(kind) == IF kind = "previous" THEN 1 ELSE 0 - 1

StepVersion(c, kind) ==
  /\ quiet
  /\ proc[c].pc = "idle"
  /\ \E base \in {[IdleProc EXCEPT !.kind = kind, !.localPath = ActiveFile]} :
     \E state \in {getCachedContext(ActiveFile)} :
         IF state # NoRecord
           THEN setSelectedIndex(c, base, state.selectedIndex + stepOf(kind))
           ELSE ensureVersions(c, base, "command", 0)
  /\ UNCHANGED <<settings, environment, windowsRegistryMappings, call,
                 trace, closed, contextKeys, elsewhere>>

PreviousVersion(c) == StepVersion(c, "previous")
NextVersion(c) == StepVersion(c, "next")

\* Lines 768-792: Pick Version to the quick pick or the load.
PickVersion(c) ==
  /\ quiet
  /\ proc[c].pc = "idle"
  /\ \E base \in {[IdleProc EXCEPT !.kind = "pick", !.localPath = ActiveFile]} :
     \E state \in {getCachedContext(ActiveFile)} :
         IF state # NoRecord
           THEN /\ proc' = [proc EXCEPT ![c] =
                     [base EXCEPT !.pc = "quickPick", !.items = Len(state.versions)]]
                /\ UNCHANGED contextCache
           ELSE ensureVersions(c, base, "command", 0)
  /\ UNCHANGED <<settings, environment, windowsRegistryMappings, call,
                 trace, closed, contextKeys, elsewhere>>

\* Lines 726 and 797-799: the load of ensureVersions has returned or thrown.
EnsureLoaded(c) ==
  /\ proc[c].pc = "ensure"
  /\ call[c].pc = "done"
  /\ \E loaded \in {call[c].returned} :
       IF loaded = NoRecord
         THEN /\ proc' = finish(c, handleOneDriveError(call[c].thrown))
              /\ UNCHANGED contextKeys
         ELSE /\ proc' = [proc EXCEPT ![c].pc = "ensured", ![c].loaded = Live]
              /\ contextKeys' =
                   [contextKeys EXCEPT !.hasVersions = Len(loaded.versions) > 0]
  /\ call' = [call EXCEPT ![c] = IdleCall]
  /\ trace' = historiesAfterReturn(c)
  /\ UNCHANGED <<settings, environment, windowsRegistryMappings,
                 contextCache, closed, elsewhere>>

\* Lines 727-728: ensureVersions returns `loaded` to the command or to
\* setSelectedIndex.
Ensured(c) ==
  /\ quiet
  /\ proc[c].pc = "ensured"
  /\ \E base \in {[proc[c] EXCEPT !.loaded = NoRecord]} :
     \E loaded \in {loadedOf(c)} :
         IF proc[c].at = "set"
           THEN selectAndPreview(c, base, proc[c].loaded, proc[c].nextIndex)
         ELSE IF proc[c].kind = "pick"
           THEN /\ proc' = [proc EXCEPT ![c] =
                     [base EXCEPT !.pc = "quickPick", !.items = Len(loaded.versions)]]
                /\ UNCHANGED contextCache
         ELSE setSelectedIndex(c, base, loaded.selectedIndex + stepOf(proc[c].kind))
  /\ UNCHANGED <<settings, environment, windowsRegistryMappings, call,
                 trace, closed, contextKeys, elsewhere>>

\* Lines 789-796: a version of the list is picked, or none.
QuickPicked(c) ==
  /\ quiet
  /\ proc[c].pc = "quickPick"
  /\ \/ /\ proc' = finish(c, NoString)
        /\ UNCHANGED contextCache
     \/ \E index \in 0..(proc[c].items - 1) :
          setSelectedIndex(c, proc[c], index)
  /\ UNCHANGED <<settings, environment, windowsRegistryMappings, call,
                 trace, closed, contextKeys, elsewhere>>

\* Lines 707-722: the load of openSelectedVersionPreview has returned or
\* thrown.
PreviewLoaded(c) ==
  /\ proc[c].pc = "previewLoad"
  /\ call[c].pc = "done"
  /\ \E data \in {call[c].returned} :
         proc' = IF data = NoRecord
                   THEN finish(c, handleOneDriveError(call[c].thrown))
                 ELSE IF data.selectedIndex \notin 0..(Len(data.versions) - 1)
                   THEN finish(c, handleOneDriveError(ErrNoVersionSelected))
                 ELSE [proc EXCEPT ![c] = opening(proc[c], data)]
  /\ call' = [call EXCEPT ![c] = IdleCall]
  /\ trace' = historiesAfterReturn(c)
  /\ UNCHANGED <<settings, environment, windowsRegistryMappings,
                 contextCache, closed, contextKeys, elsewhere>>

\* Lines 583-593 and 156-160: the preview document asks for its content.
ProvideContent(c) ==
  /\ quiet
  /\ proc[c].pc = "opening"
  /\ proc' = IF getCachedContext(proc[c].localPath) # NoRecord
               THEN [proc EXCEPT ![c].pc = "content"]
               ELSE [proc EXCEPT ![c].pc = "downloadLoad"]
  /\ UNCHANGED <<settings, environment, windowsRegistryMappings, contextCache,
                 call, trace, closed, contextKeys, elsewhere>>

\* Lines 157-159: the load of downloadVersionBytes has returned or thrown.
DownloadLoaded(c) ==
  /\ proc[c].pc = "downloadLoad"
  /\ call[c].pc = "done"
  /\ proc' = IF call[c].returned = NoRecord
               THEN finish(c, handleOneDriveError(call[c].thrown))
               ELSE [proc EXCEPT ![c].pc = "content"]
  /\ call' = [call EXCEPT ![c] = IdleCall]
  /\ trace' = historiesAfterReturn(c)
  /\ UNCHANGED <<settings, environment, windowsRegistryMappings,
                 contextCache, closed, contextKeys, elsewhere>>

\* fetchBinary: `Graph content request failed (${response.status}): ${body}`
ContentError(status, body) ==
  <<"Graph content request failed (", status, ")", ": ">> \o body

\* What Graph answers a request for the content of the current version with.
ErrCurrentVersionContent ==
  ContentError("400", <<"invalidRequest", ": ", "not supported for the ", "current version">>)
ErrContentServer == ContentError("500", <<"generalException">>)

\* What the request for /versions/{id}/content can be answered with.
contentAnswers(c) ==
  {Ok, ErrContentServer} \cup (IF proc[c].current THEN {ErrCurrentVersionContent} ELSE {})

\* Lines 158-159 and 561-573: the content request is answered; the bytes
\* are the text of the preview, an error ends the command.
ContentAnswered(c) ==
  /\ quiet
  /\ proc[c].pc = "content"
  /\ \E answer \in contentAnswers(c) :
       proc' = IF answer = Ok THEN finish(c, NoString)
               ELSE finish(c, handleOneDriveError(answer))
  /\ UNCHANGED <<settings, environment, windowsRegistryMappings, contextCache,
                 call, trace, closed, contextKeys, elsewhere>>

InitEditor ==
  /\ settings \in ConfiguredMappings
  /\ environment = <<NoString, NoString, NoString>>
  /\ windowsRegistryMappings = <<>>
  /\ contextCache = [p \in ResolvedPaths |-> NoRecord]
  /\ call = [c \in Calls |-> IdleCall]
  /\ trace = [c \in Calls |-> NoTrace]
  /\ proc = [c \in Calls |-> IdleProc]
  /\ closed = {}
  /\ contextKeys = NoKeys
  /\ probe = NoProbe
  /\ registry = windowsRegistryMappings
  /\ auth = NoAuth
  /\ editor = NoEditor

\* Two handlers or commands at a time: c1 is a command or the handler of a
\* change of the configuration, c2 the handler of either event.
NextEditor ==
  \/ ChangeActiveTextEditor("c2")
  \/ \E c \in Calls : ChangeConfiguration(c)
  \/ \E c \in Calls : UpdateStart(c)
  \/ \E c \in Calls : UpdateActive(c)
  \/ \E c \in Calls : UpdateCached(c)
  \/ \E c \in Calls : UpdateLoaded(c)
  \/ CloseTextDocument(ActiveFile)
  \/ \E c \in Calls : LoadRequested(c)
  \/ \E c \in Calls : ItemAnswered(c)
  \/ \E c \in Calls : VersionsAnswered(c)
  \/ PreviousVersion("c1")
  \/ NextVersion("c1")
  \/ PickVersion("c1")
  \/ EnsureLoaded("c1")
  \/ Ensured("c1")
  \/ QuickPicked("c1")
  \/ PreviewLoaded("c1")
  \/ ProvideContent("c1")
  \/ DownloadLoaded("c1")
  \/ ContentAnswered("c1")

SpecEditor == InitEditor /\ [][NextEditor]_vars

\* A request of the call is answered: fetch resolves or rejects.  The
\* versions of an item differ in their number.
Answered(c) ==
  \/ DirectLookup(c)
  \/ DefaultDriveLookup(c)
  \/ EnumerateDrives(c)
  \/ AllDrivesLookup(c)
  \/ EnumerateDriveWebUrls(c)
  \/ DriveWebUrlLookup(c)
  \/ ShareLookup(c)
  \/ LoadVersions(c) /\ call'[c].versions \in EditorVersionLists

\* Loads of files whose documents stay open.
NextAnswered ==
  \/ \E localPath \in LocalPaths : LoadStart("c1", localPath)
  \/ Answered("c1")
  \/ LoadReturn("c1")

\* Every request is answered in the end.
SpecAnswered == Init /\ [][NextAnswered]_vars /\ WF_vars(Answered("c1"))

(***************************************************************************)
(* The sources of the mappings change between two resolutions.             *)
(***************************************************************************)
\* The files a root is looked up for; "..y" is the name of a folder.
ResolvedFiles ==
  { <<"/", "u", "/", "x", "/", "f">>,
    <<"/", "u", "/", "x", "/", ".", ".", "y", "/", "f">>,
    <<"/", "u", "/", "OneDrive", "/", "p", "/", "f">>,
    <<"/", "u", "/", "OneDrive", "/", ".", ".", "y", "/", "f">> }

\* onedriveVersions.mappings: up to MaxMappings mappings of nested roots.
RootMappings ==
  { Mapping(<<"/", "u">>, "D1", NoString, NoString, NoString),
    Mapping(<<"/", "u", "/", "x">>, "D1", NoString, NoString, NoString),
    Mapping(<<"/", "u", "/", "x", "/">>, "D2", NoString, NoString, NoString) }
RootSettings == UNION {[1..n -> RootMappings] : n \in 0..MaxMappings}

\* process.env: the OneDrive variable is unset or names a folder.
RootEnvironments ==
  { <<NoString, NoString, NoString>>, <<<<"/", "u", "/", "x">>, NoString, NoString>> }

\* The sync relationships of the registry: none, or one with its metadata.
RootRegistries ==
  { <<>>, <<Mapping(<<"/", "u", "/", "x">>, None, NoString, UrlNamespace, FullRemotePath)>> }

\* The sources of one host when the client is constructed (line 60).
InitResolve ==
  /\ settings \in RootSettings
  /\ environment \in RootEnvironments
  /\ registry \in RootRegistries
  /\ windowsRegistryMappings = registry
  /\ contextCache = [p \in ResolvedPaths |-> NoRecord]
  /\ call = [c \in Calls |-> IdleCall]
  /\ trace = [c \in Calls |-> NoTrace]
  /\ proc = [c \in Calls |-> IdleProc]
  /\ closed = {}
  /\ contextKeys = NoKeys
  /\ probe = NoProbe
  /\ auth = NoAuth
  /\ editor = NoEditor

\* The user edits onedriveVersions.mappings: one mapping more, or one less.
ChangeSettings ==
  /\ settings' \in {changed \in RootSettings :
                      \/ Len(changed) = Len(settings) + 1
                           /\ SubSeq(changed, 1, Len(settings)) = settings
                      \/ settings # <<>> /\ changed = Tail(settings)}
  /\ UNCHANGED <<environment, windowsRegistryMappings, contextCache, call, trace,
                 proc, closed, contextKeys, probe, registry, auth, editor>>

\* The OneDrive variable of the process is set or deleted.
ChangeEnvironment ==
  /\ environment' \in RootEnvironments \ {environment}
  /\ UNCHANGED <<settings, windowsRegistryMappings, contextCache, call, trace,
                 proc, closed, contextKeys, probe, registry, auth, editor>>

\* The sync client adds or removes a relationship.
ChangeRegistry ==
  /\ registry' \in RootRegistries \ {registry}
  /\ UNCHANGED <<settings, environment, windowsRegistryMappings, contextCache,
                 call, trace, proc, closed, contextKeys, probe, auth, editor>>

\* Lines 162-187: findOneDriveRoot, with the candidates of lines 167-172.
FindOneDriveRoot(localPath) ==
  /\ \E candidates \in {mappingCandidates(pathResolve(localPath), settings,
                                           environment, windowsRegistryMappings)} :
     \E output \in {findOneDriveRoot(localPath)} :
       probe' = [function |-> "resolveBestMapping", localPath |-> localPath,
                 candidates |-> candidates, output |-> output]
  /\ UNCHANGED <<settings, environment, windowsRegistryMappings, contextCache,
                 call, trace, proc, closed, contextKeys, registry, auth, editor>>

NextResolve ==
  \/ ChangeSettings
  \/ ChangeEnvironment
  \/ ChangeRegistry
  \/ \E localPath \in ResolvedFiles : FindOneDriveRoot(localPath)

SpecResolve == InitResolve /\ [][NextResolve]_vars

(***************************************************************************)
(* The functions of no state, each applied to one input.                   *)
(***************************************************************************)
\* Remote paths: with and without the leading "/", with empty segments.
RemotePaths == UNION {[1..n -> {"/", "p", "f"}] : n \in 0..MaxLexemes}

\* URLs of two hosts in either case, and two strings that are no URL.
UrlPaths ==
  { <<>>, <<"/">>, <<"/", "s">>, <<"/", "S", "/">>, <<"/", "s", "p">>,
    <<"/", "s", "/", "p", "/", "f">>, <<"/", "S", "/", "p", "%20", "f">>,
    <<"/", "s", "/", "%">> }
UrlStrings ==
  {<<scheme, "/", "/", host>> \o path :
     scheme \in {"https:", "HTTPS:", "http:"}, host \in {"h", "H"}, path \in UrlPaths}
    \cup {<<>>, <<"s">>}

\* The URLs a share id is made of: ASCII and a letter of two bytes.
ShareUrls == UNION {[1..n -> {"h", "?", "~", "eacute"}] : n \in 0..MaxChars}

\* The calls that are about to be made: `done` is set when a call returns.
PendingCalls ==
  {[function |-> "buildRemotePathCandidates", remotePath |-> remotePath,
    done |-> FALSE, remotePathCandidates |-> <<>>] : remotePath \in RemotePaths}
    \cup {[function |-> "getRelativePathByUrlPrefix", targetUrl |-> targetUrl,
            baseUrl |-> baseUrl, done |-> FALSE, relative |-> <<>>] :
              targetUrl \in UrlStrings, baseUrl \in UrlStrings}
    \cup {[function |-> "toGraphShareId", webUrl |-> webUrl,
            done |-> FALSE, shareId |-> <<>>] : webUrl \in ShareUrls}

InitPure ==
  /\ settings = <<>>
  /\ environment = <<NoString, NoString, NoString>>
  /\ windowsRegistryMappings = <<>>
  /\ contextCache = [p \in ResolvedPaths |-> NoRecord]
  /\ call = [c \in Calls |-> IdleCall]
  /\ trace = [c \in Calls |-> NoTrace]
  /\ proc = [c \in Calls |-> IdleProc]
  /\ closed = {}
  /\ contextKeys = NoKeys
  /\ registry = <<>>
  /\ auth = NoAuth
  /\ editor = NoEditor
  /\ probe \in PendingCalls

\* Lines 976-990.
BuildRemotePathCandidates ==
  /\ probe.function = "buildRemotePathCandidates" /\ ~probe.done
  /\ probe' = [probe EXCEPT !.done = TRUE,
                 !.remotePathCandidates = buildRemotePathCandidates(probe.remotePath)]
  /\ UNCHANGED <<settings, environment, windowsRegistryMappings, contextCache,
                 call, trace, proc, closed, contextKeys, registry, auth, editor>>

\* Lines 1017-1037.
GetRelativePathByUrlPrefix ==
  /\ probe.function = "getRelativePathByUrlPrefix" /\ ~probe.done
  /\ probe' = [probe EXCEPT !.done = TRUE,
                 !.relative = getRelativePathByUrlPrefix(probe.targetUrl, probe.baseUrl)]
  /\ UNCHANGED <<settings, environment, windowsRegistryMappings, contextCache,
                 call, trace, proc, closed, contextKeys, registry, auth, editor>>

\* Lines 1011-1015.
ToGraphShareId ==
  /\ probe.function = "toGraphShareId" /\ ~probe.done
  /\ probe' = [probe EXCEPT !.done = TRUE, !.shareId = toGraphShareId(probe.webUrl)]
  /\ UNCHANGED <<settings, environment, windowsRegistryMappings, contextCache,
                 call, trace, proc, closed, contextKeys, registry, auth, editor>>

NextPure ==
  \/ BuildRemotePathCandidates
  \/ GetRelativePathByUrlPrefix
  \/ ToGraphShareId

SpecPure == InitPure /\ [][NextPure]_vars

(***************************************************************************)
(* Sign-in: getAccessToken in either mode, with and without interaction.   *)
(* The tenant of the settings stays the same.                              *)
(***************************************************************************)
Token == <<"token">>

ErrClientIdRequired ==
  <<"Device code auth requires onedriveVersions.", "auth.clientId",
    ". Run 'OneDrive: Open Setup Guide' to configure your Entra app.">>
ErrTenantPolicy ==
  <<"Tenant policy blocked VS Code Microsoft auth for Graph (", "AADSTS65002", ").",
    " Use 'OneDrive: Connect Microsoft Account' and switch to device code auth.">>
ErrNoDeviceCodeToken == <<"Device code sign-in did not return a Graph access token.">>
\* What the sign-in of VS Code or of MSAL rejects with when the user gives up.
ErrSignInCancelled == <<"User did not consent to login.">>

\* onedriveVersions.auth.clientId, trimmed: blank, or the id of an app.
ClientIds == {<<>>, <<"c">>}

\* The call as it starts: what the last call left is forgotten.
asking(interactive) ==
  [auth EXCEPT !.asked = IF interactive THEN "interactive" ELSE "silent",
               !.prompts = {}, !.result = NoString]

\* Lines 455-470: the session of VS Code, created if `interactive`.
getAccessTokenViaSession(interactive) ==
  \E base \in {asking(interactive)} :
    IF auth.session THEN auth' = [base EXCEPT !.result = Token]
    ELSE IF ~interactive THEN auth' = [base EXCEPT !.result = Thrown(ErrAuthRequired)]
    ELSE \E asked \in {[base EXCEPT !.prompts = {"createSession"}]} :
           \/ auth' = [asked EXCEPT !.session = TRUE, !.result = Token]
           \/ auth' = [asked EXCEPT !.result = Thrown(ErrSignInCancelled)]
           \/ auth' = [asked EXCEPT !.result = Thrown(ErrTenantPolicy)]

\* Line 480.
clientIdMissing(clientId) == clientId = <<>>

\* Lines 473-545: the token of the account MSAL remembers, or the
\* device-code flow if `interactive`.
getAccessTokenViaDeviceCode(interactive) ==
  \E base \in {asking(interactive)} :
    IF clientIdMissing(auth.clientId)
      THEN auth' = [base EXCEPT !.result = Thrown(ErrClientIdRequired)]
    ELSE \E app \in {IF auth.msalClientId # auth.clientId
                        THEN [base EXCEPT !.msalClientId = auth.clientId,
                                          !.msalAccountHomeId = None]
                        ELSE base} :
           \/ /\ app.msalAccountHomeId # None
              /\ auth' = [app EXCEPT !.result = Token]
           \/ IF ~interactive
                THEN auth' = [app EXCEPT !.result = Thrown(ErrAuthRequired)]
                ELSE \E flow \in {[app EXCEPT !.prompts =
                                       {"deviceCode", "browser", "clipboard"}]} :
                       \/ auth' = [flow EXCEPT !.msalAccountHomeId = "A",
                                               !.result = Token]
                       \/ auth' = [flow EXCEPT !.result = Thrown(ErrNoDeviceCodeToken)]
                       \/ auth' = [flow EXCEPT !.result = Thrown(ErrSignInCancelled)]

\* Lines 448-471: getAccessToken(options), options.interactive ?? true.
GetAccessToken(interactive) ==
  /\ IF auth.mode = "deviceCode"
       THEN getAccessTokenViaDeviceCode(interactive)
       ELSE getAccessTokenViaSession(interactive)
  /\ UNCHANGED <<settings, environment, windowsRegistryMappings, contextCache,
                 call, trace, proc, closed, contextKeys, probe, registry, editor>>

\* Lines 77-80 or the settings editor: onedriveVersions.auth.mode changes.
ChangeAuthMode ==
  /\ auth' = [auth EXCEPT !.mode = IF @ = "vscode" THEN "deviceCode" ELSE "vscode"]
  /\ UNCHANGED <<settings, environment, windowsRegistryMappings, contextCache,
                 call, trace, proc, closed, contextKeys, probe, registry, editor>>

\* onedriveVersions.auth.clientId changes.
ChangeClientId ==
  /\ auth' \in {[auth EXCEPT !.clientId = clientId] : clientId \in ClientIds \ {auth.clientId}}
  /\ UNCHANGED <<settings, environment, windowsRegistryMappings, contextCache,
                 call, trace, proc, closed, contextKeys, probe, registry, editor>>

\* The user signs out of the Microsoft account in VS Code.
SignOut ==
  /\ auth.session
  /\ auth' = [auth EXCEPT !.session = FALSE]
  /\ UNCHANGED <<settings, environment, windowsRegistryMappings, contextCache,
                 call, trace, proc, closed, contextKeys, probe, registry, editor>>

InitAuth ==
  /\ settings = <<>>
  /\ environment = <<NoString, NoString, NoString>>
  /\ windowsRegistryMappings = <<>>
  /\ contextCache = [p \in ResolvedPaths |-> NoRecord]
  /\ call = [c \in Calls |-> IdleCall]
  /\ trace = [c \in Calls |-> NoTrace]
  /\ proc = [c \in Calls |-> IdleProc]
  /\ closed = {}
  /\ contextKeys = NoKeys
  /\ probe = NoProbe
  /\ registry = <<>>
  /\ auth = NoAuth
  /\ editor = NoEditor

NextAuth ==
  \/ \E interactive \in BOOLEAN : GetAccessToken(interactive)
  \/ ChangeAuthMode
  \/ ChangeClientId
  \/ SignOut

SpecAuth == InitAuth /\ [][NextAuth]_vars

(***************************************************************************)
(* The store with two files: loads, closed documents, and the selection of *)
(* a version of a file whose context is cached.                            *)
(***************************************************************************)
\* onedriveVersions.mappings: the folder of each file, with its drive.
StoreMappings ==
  <<Mapping(OneDriveRoot, "D1", NoString, NoString, NoString),
    Mapping(<<"/", "u", "/", "x">>, "D1", NoString, NoString, NoString)>>

InitStore ==
  /\ settings = StoreMappings
  /\ environment = <<NoString, NoString, NoString>>
  /\ windowsRegistryMappings = <<>>
  /\ contextCache = [p \in ResolvedPaths |-> NoRecord]
  /\ call = [c \in Calls |-> IdleCall]
  /\ trace = [c \in Calls |-> NoTrace]
  /\ proc = [c \in Calls |-> IdleProc]
  /\ closed = {}
  /\ contextKeys = NoKeys
  /\ probe = NoProbe
  /\ registry = windowsRegistryMappings
  /\ auth = NoAuth
  /\ editor = NoEditor

\* Lines 801-824 and 731-738: Previous Version or Next Version on a file
\* whose context is cached, to the opening of the preview.
StepCachedVersion(c, localPath, kind) ==
  /\ quiet
  /\ proc[c].pc = "idle"
  /\ getCachedContext(localPath) # NoRecord
  /\ \E base \in {[IdleProc EXCEPT !.kind = kind, !.localPath = localPath]} :
       setSelectedIndex(c, base,
                        getCachedContext(localPath).selectedIndex + stepOf(kind))
  /\ UNCHANGED <<settings, environment, windowsRegistryMappings, call,
                 trace, closed, contextKeys, elsewhere>>

\* c1 is a command on either file, c2 a load of either file.
NextStore ==
  \/ \E localPath \in LocalPaths : quiet /\ LoadStart("c2", localPath)
  \/ LoadReturn("c2")
  \/ \E localPath \in LocalPaths : quiet /\ clearCachedContext(localPath)
  \/ \E localPath \in LocalPaths, kind \in {"previous", "next"} :
       StepCachedVersion("c1", localPath, kind)
  \/ ProvideContent("c1")
  \/ LoadRequested("c1")
  \/ \E c \in Calls : ItemAnswered(c)
  \/ \E c \in Calls : VersionsAnswered(c)
  \/ DownloadLoaded("c1")
  \/ ContentAnswered("c1")

SpecStore == InitStore /\ [][NextStore]_vars

(***************************************************************************)
(* What the claims speak of, read from the state of a call.                *)
(***************************************************************************)
\* The last request of the call, once it has issued one.
lastRequest(c) == trace[c].log[Len(trace[c].log)]

\* The last request failed.
failed(c) == trace[c].last # NoString /\ trace[c].last # Ok

\* The remote-path candidates of the call's file.
candidatesOf(c) == buildRemotePathCandidates(call[c].remotePath)

\* A mapping was selected and the file lies under its root.
mapped(c) == call[c].mapping # NoRecord /\ call[c].remotePath # NoString

\* The requests of the function now running, without the versions request.
lookupsOf(c) ==
  LET log == trace[c].log
  IN  IF log # <<>> /\ log[Len(log)].strategy = "versions"
        THEN SubSeq(log, 1, Len(log) - 1) ELSE log

\* The log is that of getDriveItem.
inGetDriveItem(c) ==
  trace[c].log # <<>> /\ functionOf(trace[c].log[1].strategy) = "getDriveItem"

\* How many requests getDriveItem issues when none finds the item and the
\* enumeration answers with trace[c].enumerated.
allPathRequests(c) ==
  IF call[c].mapping.driveId # None THEN Len(candidatesOf(c))
  ELSE Len(candidatesOf(c)) + 1 + Len(trace[c].enumerated) * Len(candidatesOf(c))

(***************************************************************************)
(* C1: a request of loadVersionsForFile that fails with anything but a 404 *)
(* or a 403 (a 500, a 401, no response, AUTH_REQUIRED) ends the load at    *)
(* once with that error: nothing further is tried and nothing is stored.   *)
(***************************************************************************)
C1_FatalFailureEndsLoad ==
  \A c \in Calls :
    (failed(c) /\ statusOf(trace[c].last) \notin {"404", "403"})
      => /\ call[c].pc = "done"
         /\ call[c].thrown = trace[c].last
         /\ ~trace[c].stored

(***************************************************************************)
(* C2: without a drive id the lookups go, in this order, to every          *)
(* candidate (longest first) in the default drive, to the enumeration, and *)
(* to every candidate (longest first) in each enumerated drive in the      *)
(* order enumerated; the first lookup to succeed is the last one issued,   *)
(* and while every lookup answers 404 none is left out.                    *)
(***************************************************************************)
expectedPathRequests(c) ==
  LET candidates == candidatesOf(c)
      n == Len(candidates)
      drives == trace[c].enumerated
  IN  [i \in 1..n |-> Request("default", "me", candidates[i])]
        \o <<Request("enumerate", None, <<>>)>>
        \o [k \in 1..(Len(drives) * n) |->
              Request("allDrives", drives[((k - 1) \div n) + 1],
                      candidates[((k - 1) % n) + 1])]

C2_PathLookupOrder ==
  \A c \in Calls :
    /\ call[c].item # NoRecord => call[c].pc \in {"versions", "done"}
    /\ (mapped(c) /\ call[c].mapping.driveId = None /\ inGetDriveItem(c))
         => /\ Len(lookupsOf(c)) <= Len(expectedPathRequests(c))
            /\ lookupsOf(c) = SubSeq(expectedPathRequests(c), 1, Len(lookupsOf(c)))
            /\ trace[c].found \in {0, Len(lookupsOf(c))}
            /\ (/\ call[c].pc \notin {"default", "drives", "allDrives"}
                /\ trace[c].found = 0 /\ trace[c].onlyMisses)
                 => Len(lookupsOf(c)) = allPathRequests(c)
            /\ \A i, j \in 1..Len(candidatesOf(c)) :
                 i < j => Len(candidatesOf(c)[i]) > Len(candidatesOf(c)[j])

\* The second enumerated drive had the item under its last candidate.
C2_Witness ==
  /\ mapped("c1") /\ call["c1"].mapping.driveId = None /\ inGetDriveItem("c1")
  /\ Len(trace["c1"].enumerated) = 2
  /\ trace["c1"].found = allPathRequests("c1")
  /\ call["c1"].pc = "versions"

(***************************************************************************)
(* C3: with an explicit drive id in the mapping, every item lookup of the  *)
(* load goes to that drive, whatever the answers are.                      *)
(***************************************************************************)
C3_ExplicitDriveOnly ==
  \A c \in Calls :
    (mapped(c) /\ call[c].mapping.driveId # None)
      => \A i \in 1..Len(trace[c].log) :
           trace[c].log[i].strategy \in PathStrategies \cup {"webUrl"}
             => trace[c].log[i].drive = call[c].mapping.driveId

(***************************************************************************)
(* C4: in the lookups of getDriveItem (direct, default drive, all drives)  *)
(* a candidate answered 403 is passed over like one answered 404: while    *)
(* candidates or drives remain, the lookups go on.                         *)
(***************************************************************************)
C4_AccessDeniedPassedOver ==
  \A c \in Calls :
    (/\ mapped(c) /\ inGetDriveItem(c) /\ failed(c)
     /\ lastRequest(c).strategy \in PathStrategies
     /\ statusOf(trace[c].last) = "403"
     /\ Len(trace[c].log) < allPathRequests(c))
      => call[c].pc \in {"direct", "default", "drives", "allDrives"}

(***************************************************************************)
(* C5: a failed response is not-found exactly when its status is 404 and   *)
(* access-denied exactly when its status is 403, whatever its body holds.  *)
(***************************************************************************)
C5_ClassifiedByStatus ==
  \A c \in Calls :
    failed(c)
      => /\ isGraphNotFound(trace[c].last) <=> statusOf(trace[c].last) = "404"
         /\ isGraphAccessDenied(trace[c].last) <=> statusOf(trace[c].last) = "403"


(***************************************************************************)
(* C6: the drive web-URL fallback starts only after the path lookups have  *)
(* failed: never with an item in hand, and without a drive id only after   *)
(* the default-drive lookup and the all-drives lookup were both tried.     *)
(***************************************************************************)
C6_WebUrlFallbackAfterPathLookups ==
  \A c \in Calls :
    (call[c].pc = "urlDrives" \/ "enumerateWebUrl" \in Range(trace[c].tried))
      => /\ call[c].pc \in {"urlDrives", "urlLookup"} => call[c].item = NoRecord
         /\ \E s \in PathStrategies : s \in Range(trace[c].tried)
         /\ call[c].mapping.driveId = None
              => /\ "default" \in Range(trace[c].tried)
                 /\ "enumerate" \in Range(trace[c].tried)

(***************************************************************************)
(* C7: a share lookup is issued only once the drive web-URL fallback has   *)
(* ended without an item, and only for a mapping that carries URL metadata *)
(* (fullRemotePath or urlNamespace).                                       *)
(***************************************************************************)
hasUrlMetadata(mapping) ==
  \E url \in {mapping.fullRemotePath, mapping.urlNamespace} :
    url # NoString /\ trim(url) # <<>>

C8_ExhaustionIsItemNotFound ==
  \A c \in Calls :
    (/\ call[c].pc = "done" /\ mapped(c)
     /\ call[c].item = NoRecord
     /\ trace[c].tried # <<>> /\ trace[c].onlyMisses)
      => /\ isGraphNotFound(call[c].thrown)
         /\ call[c].thrown =
              IF hasUrlMetadata(call[c].mapping) THEN ErrShareUrl
              ELSE IF call[c].mapping.driveId # None THEN ErrConfiguredDrive
              ELSE ErrAllDrives
         /\ ~trace[c].stored
         /\ contextCache[call[c].resolved] = NoRecord

\* Without URL metadata every drive was searched, with it every share root.
C8_Witness ==
  /\ call["c1"].pc = "done" /\ call["c1"].thrown = ErrAllDrives
  /\ Len(trace["c1"].enumerated) = 2
  /\ Len(trace["c1"].log) = allPathRequests("c1")

(***************************************************************************)
(* C9: without a drive id, when the default drive does not have the item   *)
(* and the k-th enumerated drive does, the load returns a context with     *)
(* that drive's id, the item's id and selectedIndex 0.                     *)
(***************************************************************************)
foundInAllDrives(c) ==
  /\ mapped(c) /\ call[c].mapping.driveId = None /\ inGetDriveItem(c)
  /\ trace[c].found > 0 /\ trace[c].log[trace[c].found].strategy = "allDrives"

C9_EnumeratedDriveReturned ==
  \A c \in Calls :
    foundInAllDrives(c)
      => /\ call[c].driveId = trace[c].log[trace[c].found].drive
         /\ (lastRequest(c).strategy = "versions" /\ trace[c].stored)
              => call[c].returned =
                   VersionContext(trace[c].log[trace[c].found].drive,
                                  call[c].item.id, call[c].returned.versions, 0)

\* C9, amended: the context has the drive id of the found item's
\* parentReference, the item's id and selectedIndex 0; an item without a
\* parentReference.driveId ends the load with "Unable to determine driveId".
C9_ItemDriveReturned ==
  \A c \in Calls :
    foundInAllDrives(c)
      => IF call[c].item.parentDriveId = None
           THEN /\ call[c].pc = "done" /\ call[c].thrown = ErrNoDriveId
                /\ lastRequest(c).strategy = "allDrives"
                /\ ~trace[c].stored
           ELSE /\ call[c].driveId = call[c].item.parentDriveId
                /\ lastRequest(c).strategy = "versions"
                     => lastRequest(c).drive = call[c].item.parentDriveId
                /\ trace[c].stored
                     => /\ call[c].returned.driveId = call[c].item.parentDriveId
                        /\ call[c].returned.itemId = call[c].item.id
                        /\ call[c].returned.selectedIndex = 0
                        /\ contextCache[call[c].resolved]
                             \in {NoRecord, call[c].returned}

\* The second enumerated drive answered with an item of another drive.
C9_Witness ==
  /\ foundInAllDrives("c1") /\ trace["c1"].stored
  /\ Len(trace["c1"].enumerated) = 2
  /\ trace["c1"].log[trace["c1"].found].drive = trace["c1"].enumerated[2]
  /\ call["c1"].returned.driveId # trace["c1"].enumerated[2]

(***************************************************************************)
(* C10: after a load that succeeds, the version list returned, which is    *)
(* the one stored, holds the versions of the remote answer, each once, in  *)
(* the order of non-increasing modification time.                          *)
(***************************************************************************)
newestFirst(versions) ==
  \A i, j \in 1..Len(versions) :
    i < j => getTime(versions[i].lastModifiedDateTime)
               >= getTime(versions[j].lastModifiedDateTime)

isPermutation(a, b) ==
  /\ Len(a) = Len(b)
  /\ \A v \in Range(a) \cup Range(b) :
       Cardinality({i \in 1..Len(a) : a[i] = v})
         = Cardinality({i \in 1..Len(b) : b[i] = v})

C10_VersionsNewestFirst ==
  /\ \A p \in ResolvedPaths :
       contextCache[p] # NoRecord => newestFirst(contextCache[p].versions)
  /\ \A c \in Calls :
       (call[c].pc = "done" /\ call[c].returned # NoRecord)
         => /\ isPermutation(call[c].returned.versions, call[c].versions)
            /\ newestFirst(call[c].returned.versions)
            /\ contextCache[call[c].resolved] \in {NoRecord, call[c].returned}

\* The remote answer had the older version first.
C10_Witness ==
  /\ call["c1"].pc = "done" /\ call["c1"].returned # NoRecord
  /\ contextCache[call["c1"].resolved] = call["c1"].returned
  /\ Len(call["c1"].versions) = 2
  /\ call["c1"].returned.versions # call["c1"].versions

(***************************************************************************)
(* C11: when the versions request of a load is answered with an empty      *)
(* list, loadVersionsForFile fails with the "no versions" error: it        *)
(* returns no context and stores none.                                     *)
(***************************************************************************)
\* The versions request of the call was answered with no version.
answeredNoVersions(c) ==
  /\ call[c].pc = "done"
  /\ trace[c].log # <<>>
  /\ lastRequest(c).strategy = "versions"
  /\ trace[c].last = Ok
  /\ call[c].versions = <<>>

C11_NoVersionsIsAnError ==
  \A c \in Calls :
    answeredNoVersions(c)
      => /\ call[c].thrown = ErrNoVersions
         /\ call[c].returned = NoRecord
         /\ ~trace[c].stored
         /\ contextCache[call[c].resolved] = NoRecord

C11_Witness ==
  /\ answeredNoVersions("c1")
  /\ call["c1"].thrown = ErrNoVersions

(***************************************************************************)
(* C12: in every reachable state, whatever the interleaving of loads,      *)
(* selection commands and document closes, every context in the store has  *)
(* at least one version and a selectedIndex that is an index of its list.  *)
(***************************************************************************)
wellFormed(versionContext) ==
  /\ Len(versionContext.versions) >= 1
  /\ versionContext.selectedIndex \in 0..(Len(versionContext.versions) - 1)

C12_StoredContextsWellFormed ==
  \A p \in ResolvedPaths : contextCache[p] # NoRecord => wellFormed(contextCache[p])

\* A selection below index 0 was made on the stored context after a close.
C12_Witness ==
  /\ getCachedContext(ActiveFile) # NoRecord
  /\ proc["c1"].set # NoRecord
  /\ proc["c1"].set.nextIndex < 0
  /\ proc["c1"].at = "set"
  /\ inFlight(call["c2"])

(***************************************************************************)
(* C13: setSelectedIndex asked for index n on a context of L >= 1 versions *)
(* writes max(0, min(L - 1, n)): an index below 0 becomes 0, one above     *)
(* L - 1 becomes L - 1, and neither is an error.                           *)
(***************************************************************************)
saturated(versionsLength, nextIndex) ==
  IF nextIndex < 0 THEN 0
  ELSE IF nextIndex > versionsLength - 1 THEN versionsLength - 1
  ELSE nextIndex

C13_SelectionSaturates ==
  \A c \in Calls :
    /\ proc[c].set # NoRecord
         => /\ proc[c].set.length >= 1
            /\ proc[c].set.selectedIndex
                 = saturated(proc[c].set.length, proc[c].set.nextIndex)
    /\ proc[c].message \notin {handleOneDriveError(ErrNoVersionsAvailable),
                                handleOneDriveError(ErrNoVersionSelected)}

\* An index past the oldest version was asked for.
C13_Witness ==
  /\ proc["c1"].set # NoRecord
  /\ proc["c1"].set.nextIndex > proc["c1"].set.length - 1
  /\ proc["c1"].set.selectedIndex = proc["c1"].set.length - 1

(***************************************************************************)
(* C14: with a context cached for the active file, Previous Version moves  *)
(* selectedIndex one up, towards the older versions, and leaves it at the  *)
(* oldest; Next Version moves it one down and leaves it at index 0.        *)
(***************************************************************************)
moved(versionContext, kind) ==
  LET index == versionContext.selectedIndex
  IN  [versionContext EXCEPT !.selectedIndex =
         IF kind = "previous"
           THEN IF index < Len(versionContext.versions) - 1 THEN index + 1 ELSE index
           ELSE IF index > 0 THEN index - 1 ELSE index]

C14_StepMovesSelection ==
  [][\A c \in Calls : \A kind \in {"previous", "next"} :
       (/\ proc[c].pc = "idle"
        /\ proc'[c].kind = kind
        /\ getCachedContext(ActiveFile) # NoRecord)
         => contextCache'[resolvedPath[ActiveFile]]
              = moved(getCachedContext(ActiveFile), kind)]_vars

\* Previous Version has moved the selection of the cached context to the
\* older of two versions.
C14_Witness ==
  /\ proc["c1"].kind = "previous"
  /\ proc["c1"].at = "none"
  /\ proc["c1"].set # NoRecord
  /\ proc["c1"].set.nextIndex = 1
  /\ getCachedContext(ActiveFile) # NoRecord
  /\ getCachedContext(ActiveFile).selectedIndex = 1

(***************************************************************************)
(* C15: a load that succeeds puts the context it built in the place of any *)
(* entry of the file: the entry is then exactly the context returned, with *)
(* the sorted versions of the answer and selectedIndex 0, and the other    *)
(* entries are as before.                                                  *)
(***************************************************************************)
\* The step of call c is the one in which its load succeeds.
succeeds(c) ==
  /\ call[c].pc = "versions"
  /\ call'[c].pc = "done"
  /\ call'[c].returned # NoRecord

C15_LoadReplacesEntry ==
  [][\A c \in Calls :
       succeeds(c)
         => /\ call'[c].returned
                 = VersionContext(call[c].driveId, call[c].item.id,
                                  sortVersions(call'[c].versions), 0)
            /\ contextCache'[call[c].resolved] = call'[c].returned
            /\ \A p \in ResolvedPaths \ {call[c].resolved} :
                 contextCache'[p] = contextCache[p]]_vars

\* The load has replaced a context with other versions and the older one
\* selected.
C15_Witness ==
  \E c \in Calls :
    /\ call[c].pc = "done"
    /\ trace[c].stored
    /\ trace[c].prior # NoRecord
    /\ trace[c].prior.selectedIndex = 1
    /\ trace[c].prior.versions # call[c].returned.versions
    /\ contextCache[call[c].resolved] = call[c].returned

(***************************************************************************)
(* C16: two loads of the same file can be in flight together; when both    *)
(* succeed, the entry of the file is the context of the load that          *)
(* completed last, whichever started first.                                *)
(***************************************************************************)
C16_LastWriterWins ==
  \A c \in Calls :
    (call[c].pc = "done" /\ trace[c].stored)
      => /\ contextCache[call[c].resolved] = call[c].returned
         /\ \A d \in Calls \ {c} : call[d].pc # "done"

\* The load that started first has completed last: the entry is its
\* context, not that of the load that overtook it.
C16_Witness ==
  \E c \in Calls :
    /\ call[c].pc = "done"
    /\ trace[c].stored
    /\ trace[c].overtaken
    /\ trace[c].prior # NoRecord
    /\ trace[c].prior.versions # call[c].returned.versions
    /\ contextCache[call[c].resolved] = call[c].returned

(***************************************************************************)
(* C17: once the document of a file has closed, the store holds no context *)
(* for the file until a load is requested after the close, also when a     *)
(* load of the file was in flight at the close.                            *)
(***************************************************************************)
C17_ClosedFileHasNoContext ==
  \A p \in closed : contextCache[p] = NoRecord

(***************************************************************************)
(* C18: getCachedContext is a pure read: it returns the context stored for *)
(* the resolved path, or none; it issues no request and leaves the store   *)
(* and its contexts as they are.                                           *)
(***************************************************************************)
\* The entry of the file, read from the store without getCachedContext.
entryOf(localPath) == contextCache[pathResolve(localPath)]

\* Steps in which a handler or command does nothing but read the store:
\* updateActiveContext at line 685, Pick Version at line 776 with a context
\* cached, downloadVersionBytes at line 157 with a context cached.
C18_CachedContextIsPureRead ==
  [][\A c \in Calls :
       /\ (proc[c].pc = "active" /\ proc'[c].pc = "cached")
            => /\ proc'[c].cached = (entryOf(proc[c].localPath) # NoRecord)
               /\ UNCHANGED <<contextCache, call, trace>>
       /\ (proc[c].pc = "idle" /\ proc'[c].kind = "pick")
            => /\ (proc'[c].pc = "quickPick") = (entryOf(ActiveFile) # NoRecord)
               /\ proc'[c].pc = "quickPick"
                    => proc'[c].items = Len(entryOf(ActiveFile).versions)
               /\ UNCHANGED <<contextCache, call, trace>>
       /\ (proc[c].pc = "opening" /\ proc'[c].pc # "opening")
            => /\ (proc'[c].pc = "content") = (entryOf(proc[c].localPath) # NoRecord)
               /\ UNCHANGED <<contextCache, call, trace>>]_vars

\* updateActiveContext has read a stored context while a load was in flight.
C18_Witness ==
  /\ proc["c2"].pc = "cached"
  /\ proc["c2"].cached
  /\ entryOf(ActiveFile) # NoRecord
  /\ inFlight(call["c1"])

(***************************************************************************)
(* C19: findOneDriveRoot is detection only: it tells whether a mapping     *)
(* contains the file, issues no request (hence asks for no token) and      *)
(* leaves the store as it is, whatever the mappings.                       *)
(***************************************************************************)
C19_DetectionOnly ==
  [][\A c \in Calls :
       (proc[c].pc = "start" /\ proc'[c].pc = "active")
         => /\ proc'[c].active
                 = (resolveBestMapping(pathResolve(ActiveFile), settings, environment,
                                       windowsRegistryMappings) # NoRecord)
            /\ UNCHANGED <<contextCache, call, trace>>]_vars

\* A root was detected for the file while its context was stored and a load
\* was in flight.
C19_Witness ==
  /\ proc["c2"].pc = "active"
  /\ proc["c2"].active
  /\ entryOf(ActiveFile) # NoRecord
  /\ inFlight(call["c1"])

(***************************************************************************)
(* C20: when no mapping contains the file, loadVersionsForFile throws the  *)
(* mapping-not-found error before it issues any request, and stores        *)
(* nothing; the background load of updateActiveContext then displays no    *)
(* error message.                                                          *)
(***************************************************************************)
C20_NoMappingFailsSilently ==
  [][\A c \in Calls :
       /\ (/\ calling(c)
           /\ call'[c] # call[c]
           /\ resolveBestMapping(pathResolve(proc[c].localPath), settings,
                                 environment, windowsRegistryMappings) = NoRecord)
            => /\ call'[c].pc = "done"
               /\ call'[c].thrown = ErrNoMapping
               /\ call'[c].returned = NoRecord
               /\ trace'[c].log = <<>>
               /\ trace'[c].tried = <<>>
               /\ contextCache' = contextCache
       /\ (/\ proc[c].kind = "update"
           /\ call[c].pc = "done"
           /\ call[c].thrown = ErrNoMapping
           /\ proc'[c] # proc[c])
            => /\ proc'[c].pc = "idle"
               /\ proc'[c].message = NoString
               /\ contextCache' = contextCache]_vars

\* The mappings were removed between the detection and the background
\* load, which has thrown the mapping-not-found error.
C20_Witness ==
  /\ proc["c2"].kind = "update"
  /\ proc["c2"].pc = "autoLoad"
  /\ call["c2"].pc = "done"
  /\ call["c2"].thrown = ErrNoMapping
  /\ trace["c2"].log = <<>>

(***************************************************************************)
(* C23: when the load in the background of updateActiveContext fails with  *)
(* AUTH_REQUIRED, the handler shows no message, sets the context key       *)
(* hasVersions to false and leaves the store as it is; the load has stored *)
(* nothing.                                                                *)
(***************************************************************************)
\* The load in the background of c has failed with AUTH_REQUIRED and the
\* handler is about to go on.
autoLoadNeedsSignIn(c) ==
  /\ proc[c].kind = "update" /\ proc[c].pc = "autoLoad"
  /\ call[c].pc = "done"
  /\ call[c].returned = NoRecord
  /\ call[c].thrown = ErrAuthRequired

C23_AuthRequiredIsSilent ==
  [][\A c \in Calls :
       autoLoadNeedsSignIn(c) /\ proc'[c].pc # "autoLoad"
         => /\ proc'[c].message = NoString
            /\ contextKeys'.hasVersions = FALSE
            /\ contextCache' = contextCache
            /\ ~trace[c].stored]_vars

\* The failure arrives while the key is true and the store holds the
\* versions another command has loaded.
C23_Witness ==
  \E c \in Calls :
    /\ autoLoadNeedsSignIn(c)
    /\ contextKeys.hasVersions = TRUE
    /\ contextCache[resolvedPath[proc[c].localPath]] # NoRecord

(***************************************************************************)
(* C21: the mapping resolveBestMapping selects is a candidate whose        *)
(* canonical root contains the path, no other candidate that contains the  *)
(* path has a longer canonical root (of nested roots the deeper one wins),  *)
(* and the mapping returned carries the canonical root.                    *)
(***************************************************************************)
\* The folder `root` is the path or one of the folders above it.
containsPath(root, localPath) ==
  LET above == pathSegments(root)
      whole == pathSegments(localPath)
  IN  Len(above) <= Len(whole) /\ SubSeq(whole, 1, Len(above)) = above

C21_DeepestContainingRoot ==
  probe.function = "resolveBestMapping" =>
    LET candidates == probe.candidates
        root(i) == normalizeLocalRoot(candidates[i].localRoot)
        containing == {i \in 1..Len(candidates) : containsPath(root(i), probe.localPath)}
    IN  IF containing = {} THEN probe.output = NoRecord
        ELSE \E i \in containing :
               /\ probe.output = [candidates[i] EXCEPT !.localRoot = root(i)]
               /\ \A j \in containing : length(root(j)) <= length(root(i))

(***************************************************************************)
(* C25: every resolution builds its candidates from what the four sources  *)
(* hold at that moment: the configuration, the environment, the registry   *)
(* and the path itself.                                                    *)
(***************************************************************************)
C25_CandidatesAreFresh ==
  [][probe' # probe =>
       probe'.candidates = mappingCandidates(probe'.localPath, settings,
                                             environment, registry)]_vars

(***************************************************************************)
(* C30: in the version list of a context that was loaded, two versions of  *)
(* the same modification time stand in the order in which the remote API   *)
(* returned them.                                                          *)
(***************************************************************************)
\* The place of a version in a list that holds it.
placeOf(versions, v) == CHOOSE k \in 1..Len(versions) : versions[k] = v

sameInstant(a, b) == getTime(a.lastModifiedDateTime) = getTime(b.lastModifiedDateTime)

C30_EqualTimesKeepOrder ==
  \A c \in Calls :
    (call[c].pc = "done" /\ call[c].returned # NoRecord)
      => \A i, j \in 1..Len(call[c].versions) :
           (i < j /\ sameInstant(call[c].versions[i], call[c].versions[j]))
             => placeOf(call[c].returned.versions, call[c].versions[i])
                  < placeOf(call[c].returned.versions, call[c].versions[j])

\* Two versions of one instant, written with different UTC offsets, are in
\* the context the load has stored.
C30_Witness ==
  /\ call["c1"].pc = "done" /\ call["c1"].returned # NoRecord
  /\ contextCache[call["c1"].resolved] = call["c1"].returned
  /\ Len(call["c1"].versions) = 2
  /\ sameInstant(call["c1"].versions[1], call["c1"].versions[2])
  /\ call["c1"].versions[1].lastModifiedDateTime
       # call["c1"].versions[2].lastModifiedDateTime

(***************************************************************************)
(* C24: for a remote path of n >= 1 non-empty segments                     *)
(* buildRemotePathCandidates returns the n suffixes of the segment list,   *)
(* each as a path that starts with "/", from the full path down to the last *)
(* segment alone, no path twice; for a path of no segment it returns the   *)
(* one candidate "/".                                                      *)
(***************************************************************************)
\* The segments written as a path: "/" before each of them.
RECURSIVE pathOf(_)
pathOf(segments) ==
  IF segments = <<>> THEN <<>>
  ELSE <<"/">> \o Head(segments) \o pathOf(Tail(segments))

C24_RemotePathSuffixes ==
  (probe.function = "buildRemotePathCandidates" /\ probe.done) =>
    LET segments == nonEmpty(split(probe.remotePath, "/"))
        n == Len(segments)
        candidates == probe.remotePathCandidates
    IN  IF n = 0 THEN candidates = << <<"/">> >>
        ELSE /\ Len(candidates) = n
             /\ \A k \in 1..n : candidates[k] = pathOf(SubSeq(segments, k, n))
             /\ \A i, j \in 1..n : i # j => candidates[i] # candidates[j]

\* "p//f": two segments around an empty one, no leading "/".
C24_Witness ==
  /\ probe.function = "buildRemotePathCandidates" /\ probe.done
  /\ probe.remotePath = <<"p", "/", "/", "f">>
  /\ probe.remotePathCandidates = << <<"/", "p", "/", "f">>, <<"/", "f">> >>

(***************************************************************************)
(* C27: getRelativePathByUrlPrefix(target, base) returns the path of       *)
(* target that remains after the path of base when the origins are equal   *)
(* ignoring case and the path of base is a prefix, ignoring case, of the   *)
(* path of target; for other origins, other paths or a string that is no   *)
(* URL it returns undefined; it never throws.                              *)
(***************************************************************************)
\* The pathname of a URL without the slashes at its end.
barePath(url) == stripTrailing(url.pathname, {"/"})

\* Both strings are URLs of one origin and the path of base begins the path
\* of target, the case of letters aside.
isUnderBase(targetUrl, baseUrl) ==
  LET target == parseUrl(targetUrl)
      base == parseUrl(baseUrl)
  IN  /\ target # NoRecord /\ base # NoRecord
      /\ toLowerCase(target.origin) = toLowerCase(base.origin)
      /\ startsWith(toLowerCase(barePath(target)), toLowerCase(barePath(base)))

\* What the path of target holds after the path of base and its slashes.
remainingPath(targetUrl, baseUrl) ==
  LET targetPath == barePath(parseUrl(targetUrl))
      basePath == barePath(parseUrl(baseUrl))
  IN  stripLeading(SubSeq(targetPath, Len(basePath) + 1, Len(targetPath)), {"/"})

\* As stated: whenever target is under base the remaining path is returned.
C27_RelativePathOrUndefined ==
  (probe.function = "getRelativePathByUrlPrefix" /\ probe.done) =>
    /\ ~isThrown(probe.relative)
    /\ IF isUnderBase(probe.targetUrl, probe.baseUrl)
         THEN probe.relative =
                decodeURIComponent(remainingPath(probe.targetUrl, probe.baseUrl))
         ELSE probe.relative = NoString

\* C27, amended: the remaining path is returned, decoded, when it can be
\* decoded; a remaining path with a "%" that starts no escape is answered
\* with undefined, like the other mismatches.
C27_DecodableRelativePathOrUndefined ==
  (probe.function = "getRelativePathByUrlPrefix" /\ probe.done) =>
    /\ ~isThrown(probe.relative)
    /\ IF /\ isUnderBase(probe.targetUrl, probe.baseUrl)
          /\ ~isMalformedUri(remainingPath(probe.targetUrl, probe.baseUrl))
         THEN probe.relative =
                decodeURIComponent(remainingPath(probe.targetUrl, probe.baseUrl))
         ELSE probe.relative = NoString

\* HTTPS://H/S/p%20f under https://h/s: the answer is "p f".
C27_Witness ==
  /\ probe.function = "getRelativePathByUrlPrefix" /\ probe.done
  /\ probe.targetUrl = <<"HTTPS:", "/", "/", "H", "/", "S", "/", "p", "%20", "f">>
  /\ probe.baseUrl = <<"https:", "/", "/", "h", "/", "s">>
  /\ probe.relative = <<"p", " ", "f">>

(***************************************************************************)
(* C28: toGraphShareId returns "u!" followed by the base64url encoding of  *)
(* the URL: no "=", no "+" and no "/" in it, and the part after "u!"       *)
(* decodes to the URL.                                                     *)
(***************************************************************************)
\* The value of a digit of base64url.
sextetOf(digit) ==
  IF digit = "-" THEN 62
  ELSE IF digit = "_" THEN 63
  ELSE (CHOOSE k \in 1..64 : Base64Digits[k] = digit) - 1

\* The bytes a run of base64url digits without padding stands for.
RECURSIVE bytesOf(_)
bytesOf(digits) ==
  LET six(i) == sextetOf(digits[i])
  IN  IF Len(digits) < 2 THEN <<>>
      ELSE IF Len(digits) = 2 THEN <<six(1) * 4 + six(2) \div 16>>
      ELSE IF Len(digits) = 3
        THEN <<six(1) * 4 + six(2) \div 16, (six(2) % 16) * 16 + six(3) \div 4>>
      ELSE <<six(1) * 4 + six(2) \div 16, (six(2) % 16) * 16 + six(3) \div 4,
             (six(3) % 4) * 64 + six(4)>> \o bytesOf(SubSeq(digits, 5, Len(digits)))

\* The characters a run of bytes is the UTF-8 encoding of.
RECURSIVE fromUtf8(_)
fromUtf8(bytes) ==
  IF bytes = <<>> THEN <<>>
  ELSE IF Head(bytes) = 104 THEN <<"h">> \o fromUtf8(Tail(bytes))
  ELSE IF Head(bytes) = 63 THEN <<"?">> \o fromUtf8(Tail(bytes))
  ELSE IF Head(bytes) = 126 THEN <<"~">> \o fromUtf8(Tail(bytes))
  ELSE IF Len(bytes) >= 2 /\ Head(bytes) = 195 /\ bytes[2] = 169
    THEN <<"eacute">> \o fromUtf8(Tail(Tail(bytes)))
  ELSE <<"U+FFFD">> \o fromUtf8(Tail(bytes))

C28_ShareIdIsBase64Url ==
  (probe.function = "toGraphShareId" /\ probe.done) =>
    LET digits == SubSeq(probe.shareId, 3, Len(probe.shareId))
    IN  /\ startsWith(probe.shareId, <<"u", "!">>)
        /\ \A i \in 1..Len(digits) : digits[i] \notin {"=", "+", "/"}
        /\ fromUtf8(bytesOf(digits)) = probe.webUrl

\* A URL of four bytes whose plain base64 is "w6k/aA==".
C28_Witness ==
  /\ probe.function = "toGraphShareId" /\ probe.done
  /\ probe.webUrl = <<"eacute", "?", "h">>
  /\ probe.shareId = <<"u", "!", "w", "6", "k", "_", "a", "A">>

(***************************************************************************)
(* C29: when Graph rejects the request for /versions/{id}/content because  *)
(* the id is that of the current version, the content of the item is       *)
(* requested instead, so no download of the current version ends with that *)
(* rejection.                                                              *)
(***************************************************************************)
C29_CurrentVersionContentFallsBack ==
  \A c \in Calls :
    ~isGraphCurrentVersionContentUnsupported(proc[c].message)

(***************************************************************************)
(* C22: a call of getAccessToken without interaction asks the user for     *)
(* nothing in either mode (no session is created, no device-code flow is   *)
(* started, no browser is opened, nothing is written to the clipboard),    *)
(* and when it has no token to return it fails with AUTH_REQUIRED.         *)
(***************************************************************************)
C22_SilentOrAuthRequired ==
  auth.asked = "silent" =>
    /\ auth.prompts = {}
    /\ auth.result \in {Token, Thrown(ErrAuthRequired)}


(***************************************************************************)
(* C26: within one call of loadVersionsForFile the requests are strictly   *)
(* sequential.  A call at an await waits on exactly one request; the step  *)
(* that moves it on handles the answer to that request and to no other,    *)
(* and only that step puts the next request in flight; a call that is not  *)
(* at an await handles no answer.                                          *)
(***************************************************************************)
outstanding(c) ==
  IF inFlight(call[c]) THEN {awaitedRequest(call[c])} ELSE {}

answeredIn(t) == t.log[Len(t.log)]

containingCandidates ==
  {i \in 1..Len(probe.candidates) :
     containsPath(normalizeLocalRoot(probe.candidates[i].localRoot), probe.localPath)}

\* Those of them with the longest canonical root.
longestCandidates ==
  {i \in containingCandidates :
     \A j \in containingCandidates :
       length(normalizeLocalRoot(probe.candidates[j].localRoot))
         <= length(normalizeLocalRoot(probe.candidates[i].localRoot))}

C31_EarliestSourceWins ==
  (probe.function = "resolveBestMapping" /\ containingCandidates # {}) =>
    \E first \in longestCandidates :
      /\ \A other \in longestCandidates : first <= other
      /\ probe.output # NoRecord
      /\ probe.output.driveId = probe.candidates[first].driveId
      /\ probe.output.remoteRoot = probe.candidates[first].remoteRoot
      /\ probe.output.urlNamespace = probe.candidates[first].urlNamespace
      /\ probe.output.fullRemotePath = probe.candidates[first].fullRemotePath

(***************************************************************************)
(* C32: path inference adds a candidate exactly when a segment of the path *)
(* matches the OneDrive pattern, its root is the path up to and including  *)
(* the first such segment, and so a mapping is found for such a path; when *)
(* no segment matches and no candidate of the other sources contains the   *)
(* path, none is found.                                                    *)
(***************************************************************************)
\* The segments of a path that match the OneDrive pattern.
oneDriveSegments(localPath) ==
  {i \in 1..Len(pathSegments(localPath)) : matchesOneDrive(pathSegments(localPath)[i])}

\* The path up to and including its first segment that matches.
firstOneDriveFolder(localPath) ==
  LET first == CHOOSE i \in oneDriveSegments(localPath) :
                 \A j \in oneDriveSegments(localPath) : i <= j
  IN  <<"/">> \o join(SubSeq(pathSegments(localPath), 1, first), "/")

\* The candidates of the configuration, the environment and the registry.
otherSources ==
  getMappingsFromConfig(settings) \o getMappingsFromEnvironment(environment)
    \o windowsRegistryMappings

C32_InferredRootIsFound ==
  [][probe' # probe =>
       /\ (Len(probe'.candidates) > Len(otherSources))
            = (oneDriveSegments(probe'.localPath) # {})
       /\ oneDriveSegments(probe'.localPath) # {} =>
            /\ probe'.candidates[Len(probe'.candidates)].localRoot
                 = firstOneDriveFolder(probe'.localPath)
            /\ probe'.output # NoRecord
       /\ (/\ oneDriveSegments(probe'.localPath) = {}
           /\ \A i \in 1..Len(otherSources) :
                ~containsPath(normalizeLocalRoot(otherSources[i].localRoot),
                              probe'.localPath))
            => probe'.output = NoRecord]_vars

(***************************************************************************)
(* C33: a candidate matches exactly when the segments of its canonical     *)
(* root are a prefix of, or equal to, the segments of the path, also when  *)
(* the first segment below the root begins with two dots; and              *)
(* toRelativeSegments does not throw for the mapping that was selected.    *)
(***************************************************************************)
C33_MatchIsSegmentPrefix ==
  probe.function = "resolveBestMapping" =>
    /\ \A i \in 1..Len(probe.candidates) :
         isPathWithin(pathResolve(probe.localPath),
                      normalizeLocalRoot(probe.candidates[i].localRoot))
           = (i \in containingCandidates)
    /\ probe.output # NoRecord =>
         toRelativeSegments(probe.output, pathResolve(probe.localPath)) # NoString

(***************************************************************************)
(* C34: the lookup that getDriveItemByDriveWebUrl awaits is in a drive of  *)
(* the enumeration whose web URL is, ignoring case, a prefix of one of the *)
(* target URLs, so a drive without a web URL or with another web URL is    *)
(* never asked; and a lookup answered 404 or 403 is followed by the next   *)
(* lookup, or by the share roots after the last one.                       *)
(***************************************************************************)
\* The text of baseUrl begins the text of targetUrl, ignoring case.
isUrlPrefix(baseUrl, targetUrl) ==
  startsWith(toLowerCase(targetUrl), toLowerCase(baseUrl))

\* The drive of the enumeration can be asked for one of the targets.
hasMatchingWebUrl(drive, targetUrls) ==
  /\ drive.webUrl # NoString
  /\ \E t \in 1..Len(targetUrls) :
       isUrlPrefix(normalizeShareBaseUrl(drive.webUrl), targetUrls[t])

C34_LookupOnlyInMatchingDrive ==
  [][\A c \in Calls :
       call[c].pc = "urlLookup" =>
         /\ \E d \in 1..Len(call[c].drives) :
              /\ call[c].drives[d].id = awaitedRequest(call[c]).drive
              /\ hasMatchingWebUrl(call[c].drives[d], call[c].targetUrls)
         /\ (call'[c] # call[c] /\ trace'[c].last \in {NotFound404, Denied403}) =>
              IF call[c].lookup < Len(call[c].lookups)
                THEN call'[c] = [call[c] EXCEPT !.lookup = @ + 1]
                ELSE call'[c].pc = "share"]_vars

\* After a lookup that was not found, the next lookup is awaited, and the
\* enumeration holds a drive that is not asked.
C34_Witness ==
  /\ call["c1"].pc = "urlLookup"
  /\ call["c1"].lookup >= 2
  /\ trace["c1"].last = NotFound404
  /\ \E d \in 1..Len(call["c1"].drives) :
       /\ ~hasMatchingWebUrl(call["c1"].drives[d], call["c1"].targetUrls)
       /\ \A k \in 1..Len(call["c1"].lookups) :
            call["c1"].lookups[k].drive # call["c1"].drives[d].id

(***************************************************************************)
(* C35: whenever getRelativePathByUrlPrefix(target, base) returns a value  *)
(* r, the path of base followed by "/" and r is the path of target, case   *)
(* and slashes at the end aside: the segments of base's path are the first *)
(* segments of target's path.                                              *)
(***************************************************************************)
\* The path made of the segments of two paths, as it stands in a URL.
pathOfSegments(basePath, relative) ==
  join(pathSegments(basePath) \o pathSegments(encodePathname(relative)), "/")

C35_WholeSegmentPrefix ==
  (/\ probe.function = "getRelativePathByUrlPrefix" /\ probe.done
   /\ probe.relative # NoString) =>
    toLowerCase(pathOfSegments(barePath(parseUrl(probe.baseUrl)), probe.relative))
      = toLowerCase(join(pathSegments(barePath(parseUrl(probe.targetUrl))), "/"))

(***************************************************************************)
(* C36: when every request is answered, a call of loadVersionsForFile      *)
(* returns or throws in the end, and the item lookups it has made never    *)
(* exceed candidates * (1 + drives) + drives * URL roots + URL roots,      *)
(* where drives is the length of the longest enumeration it was given.     *)
(***************************************************************************)
lookupBound(c) ==
  IF call[c].remotePath = NoString THEN 0
  ELSE LET candidates == Len(buildRemotePathCandidates(call[c].remotePath))
           drives == trace[c].mostDrives
           urlRoots == Len(shareRootsOf(call[c].mapping))
       IN  candidates * (1 + drives) + drives * urlRoots + urlRoots

C36_LoadCompletesWithinBound ==
  /\ [](\A c \in Calls : trace[c].lookups <= lookupBound(c))
  /\ \A c \in Calls : inFlight(call[c]) ~> call[c].pc = "done"

\* A call that has thrown after as many lookups as the bound allows: every
\* candidate in /me/drive and in two drives, both URL roots in both drives,
\* and both share roots.
C36_Witness ==
  /\ call["c1"].pc = "done" /\ call["c1"].thrown # NoString
  /\ trace["c1"].mostDrives = MaxDrives
  /\ Len(shareRootsOf(call["c1"].mapping)) = 2
  /\ trace["c1"].lookups = lookupBound("c1")
  /\ trace["c1"].lookups >= 10

(***************************************************************************)
(* C37: a call of loadVersionsForFile that throws, whatever the error, has *)
(* not written the store: the step in which it throws leaves every entry,  *)
(* with its selectedIndex, as it was, and the call has stored nothing      *)
(* before.                                                                 *)
(***************************************************************************)
C37_FailedLoadKeepsStore ==
  [][\A c \in Calls :
       (call[c].pc # "done" /\ call'[c].pc = "done" /\ call'[c].thrown # NoString)
         => /\ contextCache' = contextCache
            /\ ~trace[c].stored /\ ~trace'[c].stored]_vars

\* A load has thrown while the store holds a context of the file, stored by
\* another load, whose selection has moved since.
C37_Witness ==
  \E c \in Calls :
    /\ call[c].pc = "done" /\ call[c].thrown # NoString
    /\ contextCache[call[c].resolved] # NoRecord
    /\ contextCache[call[c].resolved].selectedIndex > 0

(***************************************************************************)
(* C38: an operation of the store on the canonical path of one file, a     *)
(* load that completes, clearCachedContext or a change of the selected     *)
(* index, leaves the entry of every other path as it was; the store has    *)
(* one place per canonical path, which holds one context or none.          *)
(***************************************************************************)
\* The paths whose entry a step changes.
changedEntries == {p \in ResolvedPaths : contextCache'[p] # contextCache[p]}

C38_OtherEntriesUnchanged ==
  [][/\ Cardinality(changedEntries) <= 1
     /\ DOMAIN contextCache' = ResolvedPaths
     /\ \A l, m \in LocalPaths :
          pathResolve(l) = pathResolve(m) => getCachedContext(l) = getCachedContext(m)
     /\ \A c \in Calls :
          /\ (call[c].pc = "versions" /\ call'[c].pc = "done")
               => changedEntries \subseteq {call[c].resolved}
          /\ (proc[c].pc = "idle" /\ proc'[c].kind \in {"previous", "next"})
               => changedEntries \subseteq {pathResolve(proc'[c].localPath)}]_vars

\* The selected index of one file moves while the other file has a context
\* with another selection.
C38_Witness ==
  \E p, q \in ResolvedPaths :
    /\ p # q
    /\ contextCache[p] # NoRecord /\ contextCache[p].selectedIndex = 1
    /\ contextCache[q] # NoRecord /\ contextCache[q].selectedIndex = 0
    /\ \E c \in Calls : proc[c].pc = "opening" /\ resolvedPath[proc[c].localPath] = p

(***************************************************************************)
(* C39: while no handler or command runs and no call of                    *)
(* loadVersionsForFile is in flight, the context key                       *)
(* oneDriveVersions.hasVersions is true only if the store holds a context  *)
(* of the active file.                                                     *)
(***************************************************************************)
\* No updateActiveContext, no command and no load is between its start and
\* its end.
atRest == \A c \in Calls : proc[c].pc = "idle" /\ call[c].pc = "idle"

\* The key has been set, and to true.
hasVersionsKey == ToString(contextKeys.hasVersions) = "TRUE"

C39_HasVersionsOnlyWithContext ==
  (atRest /\ hasVersionsKey) => getCachedContext(ActiveFile) # NoRecord

(***************************************************************************)
(* Restore Selected Version (lines 852-890) on the active tab, while the   *)
(* user edits and saves the document of the file.  The extension handles   *)
(* neither event.                                                          *)
(***************************************************************************)
\* The editor of the file, a version preview of the file, an editor that
\* names no file.
Tabs == {"file", "preview", "other"}

\* Lines 917-935: the path of a file editor, the `local` of the query of a
\* version preview, or undefined.
getActiveFilePath == IF editor.tab = "other" THEN NoString ELSE ActiveFile

\* Line 859: the document of the active editor is that of the file and has
\* unsaved edits.  A version preview has another scheme and is never dirty.
activeDocIsDirty == editor.tab = "file" /\ editor.isDirty

InitRestore ==
  /\ settings = <<Mapping(<<"/", "u", "/", "x">>, "D1", NoString, NoString, NoString)>>
  /\ environment = <<NoString, NoString, NoString>>
  /\ windowsRegistryMappings = <<>>
  /\ contextCache = [p \in ResolvedPaths |-> NoRecord]
  /\ call = [c \in Calls |-> IdleCall]
  /\ trace = [c \in Calls |-> NoTrace]
  /\ proc = [c \in Calls |-> IdleProc]
  /\ closed = {}
  /\ contextKeys = NoKeys
  /\ probe = NoProbe
  /\ registry = windowsRegistryMappings
  /\ auth = NoAuth
  /\ \E tab \in Tabs : editor = [NoEditor EXCEPT !.tab = tab]

\* The user types in the document of the file, in whatever editor group it
\* is shown; not while the modal dialog is open.
EditDocument(c) ==
  /\ quiet
  /\ proc[c].pc # "confirm"
  /\ ~editor.isDirty
  /\ editor' = [editor EXCEPT !.isDirty = TRUE]
  /\ UNCHANGED <<settings, environment, windowsRegistryMappings, contextCache,
                 call, trace, proc, closed, contextKeys, probe, registry, auth>>

\* The user saves the document, or discards the edits.
SaveDocument(c) ==
  /\ quiet
  /\ proc[c].pc # "confirm"
  /\ editor.isDirty
  /\ editor' = [editor EXCEPT !.isDirty = FALSE]
  /\ UNCHANGED <<settings, environment, windowsRegistryMappings, contextCache,
                 call, trace, proc, closed, contextKeys, probe, registry, auth>>

\* Lines 866-876: the selected version, then the confirmation dialog.
confirmSelected(c, base, state) ==
  IF state.selectedIndex \notin 0..(Len(state.versions) - 1)
    THEN finish(c, handleOneDriveError(ErrNoVersionSelected))
    ELSE [proc EXCEPT ![c] =
            [base EXCEPT !.pc = "confirm",
                         !.version = state.versions[state.selectedIndex + 1].id]]

\* Lines 852-876: the command to its first await.
RestoreVersion(c) ==
  /\ quiet
  /\ proc[c].pc = "idle"
  /\ \E localPath \in {getActiveFilePath} :
     \E base \in {[IdleProc EXCEPT !.kind = "restore", !.localPath = localPath]} :
     \E started \in {[editor EXCEPT !.confirm = "none", !.warning = FALSE,
                                    !.wrote = FALSE, !.wroteDirty = FALSE,
                                    !.wroteConfirmed = FALSE]} :
       IF localPath = NoString
         THEN /\ proc' = finish(c, NoString)
              /\ editor' = started
       ELSE IF activeDocIsDirty
         THEN /\ proc' = finish(c, NoString)
              /\ editor' = [started EXCEPT !.warning = TRUE]
       ELSE IF getCachedContext(localPath) # NoRecord
         THEN /\ proc' = confirmSelected(c, base, getCachedContext(localPath))
              /\ editor' = started
       ELSE /\ proc' = [proc EXCEPT ![c] = [base EXCEPT !.pc = "ensure", !.at = "command"]]
            /\ editor' = started
  /\ UNCHANGED <<settings, environment, windowsRegistryMappings, contextCache,
                 call, trace, closed, contextKeys, probe, registry, auth>>

\* Lines 865-876: ensureVersions has returned the loaded context.
RestoreEnsured(c) ==
  /\ quiet
  /\ proc[c].pc = "ensured" /\ proc[c].kind = "restore"
  /\ proc' = confirmSelected(c, [proc[c] EXCEPT !.loaded = NoRecord], loadedOf(c))
  /\ UNCHANGED <<settings, environment, windowsRegistryMappings, contextCache,
                 call, trace, closed, contextKeys, elsewhere>>

\* Lines 871-882 and 156-157: the dialog is answered; on 'Restore',
\* downloadVersionBytes to its first await.
ConfirmAnswered(c) ==
  /\ quiet
  /\ proc[c].pc = "confirm"
  /\ \E confirm \in {"Restore", "dismissed"} :
       /\ editor' = [editor EXCEPT !.confirm = confirm]
       /\ proc' = IF confirm # "Restore" THEN finish(c, NoString)
                  ELSE IF getCachedContext(proc[c].localPath) # NoRecord
                    THEN [proc EXCEPT ![c].pc = "content"]
                  ELSE [proc EXCEPT ![c].pc = "downloadLoad"]
  /\ UNCHANGED <<settings, environment, windowsRegistryMappings, contextCache,
                 call, trace, closed, contextKeys, probe, registry, auth>>

\* Lines 158-159 and 882-887: the content request is answered; the bytes
\* are written to the file, whatever its document holds.
RestoreContentAnswered(c) ==
  /\ quiet
  /\ proc[c].pc = "content" /\ proc[c].kind = "restore"
  /\ \E answer \in contentAnswers(c) :
       IF answer = Ok
         THEN /\ proc' = finish(c, NoString)
              /\ editor' = [editor EXCEPT !.wrote = TRUE,
                                          !.wroteDirty = editor.isDirty,
                                          !.wroteConfirmed = editor.confirm = "Restore"]
         ELSE /\ proc' = finish(c, handleOneDriveError(answer))
              /\ UNCHANGED editor
  /\ UNCHANGED <<settings, environment, windowsRegistryMappings, contextCache,
                 call, trace, closed, contextKeys, probe, registry, auth>>

NextRestore ==
  \/ EditDocument("c1")
  \/ SaveDocument("c1")
  \/ RestoreVersion("c1")
  \/ LoadRequested("c1")
  \/ ItemAnswered("c1")
  \/ VersionsAnswered("c1")
  \/ EnsureLoaded("c1")
  \/ RestoreEnsured("c1")
  \/ ConfirmAnswered("c1")
  \/ DownloadLoaded("c1")
  \/ RestoreContentAnswered("c1")
  \/ CloseTextDocument(ActiveFile)

SpecRestore == InitRestore /\ [][NextRestore]_vars

(***************************************************************************)
(* C40: Restore Selected Version has written the file only after 'Restore' *)
(* was chosen in the confirmation dialog, and never over unsaved edits of  *)
(* the document of the file, whether the file or its version preview was   *)
(* the active tab.                                                         *)
(***************************************************************************)
C40_RestoreOnlyConfirmedAndClean ==
  editor.wrote => (editor.wroteConfirmed /\ ~editor.wroteDirty)

=============================================================================
